---- MODULE Spec2Model ----
(***************************************************************************)
(* A model of vrc-calendar-updater: the datastream serializer              *)
(* (src/src/datastream.rs), the test-pattern binary (src/src/bin/          *)
(* testpat.rs), the render primitives (src/src/render_prims.rs) and the    *)
(* layout composer (src/src/main.rs).                                      *)
(*                                                                         *)
(* The program is one sequential pass, so each part is modelled as the     *)
(* operators its functions compute plus a small state machine that draws   *)
(* an input and applies them:                                              *)
(*   SpecQuant  - convert_part / ByteColor::from_value / testpat           *)
(*   SpecDS     - DatastreamElements::encode and ::write                   *)
(*   SpecStack  - RenderColumn::push / RenderGroup::push and bounds        *)
(*   SpecPad    - pad_vertical / pad_sides                                 *)
(*   SpecLayout - layout_day / generate_variable_layout                    *)
(*   SpecRender - Renderable::render / render_to on a cairo::Context       *)
(*   SpecScale  - Scale::bounds                                            *)
(*   SpecEnd    - format_end                                               *)
(*   SpecFetch  - fetch_calendar                                           *)
(*   SpecSquash - compute_layout / squash_surface                          *)
(* Variables a specification does not use stay at their idle value.        *)
(***************************************************************************)
EXTENDS Integers, Sequences, FiniteSets, TLC

VARIABLES
    qarg,      \* SpecQuant: the u32 / usize argument of the call
    qres,      \* SpecQuant: what datastream.rs returned for it
    tpres,     \* SpecQuant: what testpat.rs returned for it
    cpres,     \* SpecQuant: what convert_part returned for it
    ds,        \* SpecDS: the DatastreamElements record (self)
    surf,      \* SpecDS: the cairo::ImageSurface written to
    encoded,   \* SpecDS: the result of self.encode()
    wres,      \* SpecDS: the result of self.write(surf)
    col,       \* SpecStack: a RenderColumn
    grp,       \* SpecStack: a RenderGroup holding the same children
    pushed,    \* SpecStack: the bounds of the children pushed so far
    rets,      \* SpecStack: what each RenderColumn::push returned
    padcall,   \* SpecPad: the last pad_vertical / pad_sides call
    padded,    \* SpecPad: the renderable it returned
    days,      \* SpecLayout: the CalendarDay list
    height_limit, \* SpecLayout: the row budget
    vdata,     \* SpecLayout: the VerticalData table
    layout,    \* SpecLayout: what generate_variable_layout returned
    tree,      \* SpecRender: the renderable painted
    cx,        \* SpecRender: the cairo::Context painted on
    rres,      \* SpecRender: what render / render_to returned
    fcall,     \* function specifications: the call made
    fres       \* function specifications: what it returned

vars == <<qarg, qres, tpres, cpres, ds, surf, encoded, wres, col, grp, pushed, rets,
          padcall, padded, days, height_limit, vdata, layout,
          tree, cx, rres, fcall, fres>>

quantVars  == <<qarg, qres, tpres, cpres>>
dsVars     == <<ds, surf, encoded, wres>>
stackVars  == <<col, grp, pushed, rets>>
padVars    == <<padcall, padded>>
layoutVars == <<days, height_limit, vdata, layout>>
renderVars == <<tree, cx, rres>>
fnVars     == <<fcall, fres>>

\* The value of a result that has not been computed.
None == [kind |-> "none"]

\* F of the value of v: v is evaluated once, however often F uses it.
Once(v, F(_)) == CHOOSE r \in {F(x) : x \in {v}} : TRUE

Min(a, b) == IF a < b THEN a ELSE b
Max(a, b) == IF a > b THEN a ELSE b

IdleQuant  == qarg = 0 /\ qres = None /\ tpres = None /\ cpres = None
IdleDS     == ds = None /\ surf = None /\ encoded = None /\ wres = None
IdleStack  == col = None /\ grp = None /\ pushed = <<>> /\ rets = <<>>
IdlePad    == padcall = None /\ padded = None
IdleLayout == days = <<>> /\ height_limit = 0 /\ vdata = <<>> /\ layout = None
IdleRender == tree = None /\ cx = None /\ rres = None
IdleFn     == fcall = None /\ fres = None

(***************************************************************************)
(* Quantization: src/src/datastream.rs and src/src/bin/testpat.rs          *)
(***************************************************************************)

\* 1 << 18: the first value from_value rejects.
ValueLimit == 262144

\* <u8 as TryFrom<u32>>: the conversion fails above 255.
FitsU8(v) == v < 256

\* u8 arithmetic keeps 8 bits.
WrapU8(v) == v % 256

\* The mutant of convert_part: the correction applies from 96 on.
convert_part_ge(v) ==
    IF ~FitsU8(v) THEN [kind |-> "err"]
    ELSE LET s == WrapU8(v * 4)
         IN  [kind |-> "ok", val |-> IF s >= 96 THEN WrapU8(s + 2) ELSE s]

\* The mutant of convert_part: the shift is by 3.
convert_part_shl3(v) ==
    IF ~FitsU8(v) THEN [kind |-> "err"]
    ELSE LET s == WrapU8(v * 8)
         IN  [kind |-> "ok", val |-> IF s > 96 THEN WrapU8(s + 2) ELSE s]

\* fn convert_part(v: u32) -> Result<u8>
convert_part(v) ==
    IF ~FitsU8(v) THEN [kind |-> "err"]
    ELSE LET s == WrapU8(v * 4)
         IN  [kind |-> "ok", val |-> IF s > 96 THEN WrapU8(s + 2) ELSE s]

\* The mutant of Bits6: the mask is 0x1F.
Bits6_mask5(value, n) == (value \div (2 ^ n)) % 32

\* (value >> n) & 0x3F
Bits6(value, n) == (value \div (2 ^ n)) % 64

\* The mutant of from_value: the red and blue groups are exchanged.
from_value_swapped(value) ==
    IF value >= ValueLimit THEN [kind |-> "err"]
    ELSE LET r == convert_part(Bits6(value, 0))
             g == convert_part(Bits6(value, 6))
             b == convert_part(Bits6(value, 12))
         IN  IF r.kind # "ok" \/ g.kind # "ok" \/ b.kind # "ok"
             THEN [kind |-> "err"]
             ELSE [kind |-> "ok",
                   color |-> [r |-> r.val, g |-> g.val, b |-> b.val, a |-> 255]]

\* fn ByteColor::from_value(value: u32) -> Result<Self>
from_value(value) ==
    IF value >= ValueLimit THEN [kind |-> "err"]
    ELSE LET r == convert_part(Bits6(value, 12))
             g == convert_part(Bits6(value, 6))
             b == convert_part(Bits6(value, 0))
         IN  IF r.kind # "ok" \/ g.kind # "ok" \/ b.kind # "ok"
             THEN [kind |-> "err"]
             ELSE [kind |-> "ok",
                   color |-> [r |-> r.val, g |-> g.val, b |-> b.val, a |-> 255]]

\* testpat.rs: fn convert_part(v: usize) -> u8; try_into().unwrap() panics.
testpat_convert_part(v) ==
    IF ~FitsU8(v) THEN [kind |-> "panic"]
    ELSE LET s == WrapU8(v * 4)
         IN  [kind |-> "ok", val |-> IF s > 96 THEN WrapU8(s + 2) ELSE s]

\* testpat.rs: fn from_value(value: usize) -> [u8;4], the array [b, g, r, 0xff].
testpat_from_value(value) ==
    IF value >= ValueLimit THEN [kind |-> "panic"]
    ELSE LET r == testpat_convert_part(Bits6(value, 12))
             g == testpat_convert_part(Bits6(value, 6))
             b == testpat_convert_part(Bits6(value, 0))
         IN  IF r.kind # "ok" \/ g.kind # "ok" \/ b.kind # "ok"
             THEN [kind |-> "panic"]
             ELSE [kind |-> "ok", bytes |-> <<b.val, g.val, r.val, 255>>]

\* How far past the largest value the arguments tried range.
OverLimit == 2

\* The arguments tried: every value, and the first ones rejected.
QuantArgs == 0 .. (ValueLimit + OverLimit - 1)

\* u8::MAX
U8Max == 255

\* The arguments convert_part is tried on alone: every u8, and the first
\* ones its conversion rejects.
ConvertArgs == 0 .. (U8Max + OverLimit)

InitQuant ==
    /\ qarg \in QuantArgs
    /\ qres = None
    /\ tpres = None
    /\ cpres = None
    /\ IdleDS /\ IdleStack /\ IdlePad /\ IdleLayout
    /\ IdleRender /\ IdleFn

\* The datastream serializer quantizes qarg.
FromValue ==
    /\ qres = None
    /\ qres' = from_value(qarg)
    /\ UNCHANGED <<qarg, tpres, cpres, dsVars, stackVars, padVars, layoutVars,
                 renderVars, fnVars>>

\* The test-pattern binary quantizes qarg.
TestpatFromValue ==
    /\ tpres = None
    /\ tpres' = testpat_from_value(qarg)
    /\ UNCHANGED <<qarg, qres, cpres, dsVars, stackVars, padVars, layoutVars,
                 renderVars, fnVars>>

\* convert_part is applied to qarg as one channel value.
ConvertPart ==
    /\ qarg \in ConvertArgs
    /\ cpres = None
    /\ cpres' = convert_part(qarg)
    /\ UNCHANGED <<qarg, qres, tpres, dsVars, stackVars, padVars, layoutVars,
                 renderVars, fnVars>>

NextQuant == FromValue \/ TestpatFromValue \/ ConvertPart

SpecQuant == InitQuant /\ [][NextQuant]_vars

(***************************************************************************)
(* Configuration: src/src/config.rs                                        *)
(***************************************************************************)

VIEWPORT_HEIGHT == 1447
VIEWPORT_WIDTH == 1024
SECTION_PAD == 32
LEFT_BORDER == 23
RIGHT_BORDER == 71
VARIABLE_OUTER_LEFT == 23
VARIABLE_OUTER_RIGHT == 953
VARIABLE_TOP == 585
VARIABLE_BOTTOM == 1313
VARIABLE_HEADER_BOTTOM == VARIABLE_TOP + 95
DAY_HEADER_HEIGHT == VARIABLE_HEADER_BOTTOM - VARIABLE_TOP
TIME_COL_LEFT == 28
TIME_COL_RIGHT == 139
EVENT_INFO_LEFT == 144 + 16
EVENT_INFO_RIGHT == 948
EVENT_MARKER_HEIGHT == 16
\* EVENT_MARKER_HEIGHT * 0.866, rounded up (EVENT_MARKER_WIDTH.ceil())
EVENT_MARKER_WIDTH_ceil == ((EVENT_MARKER_HEIGHT * 866) + 999) \div 1000
BG_SAMPLE_HEIGHT == 32
SCROLL_SPLIT_POINT == VARIABLE_BOTTOM
HEADER_BLEND_START == 8
HEADER_BLEND_END == 16

PAL_DATE == 0
PAL_TEXT_ENDED == 1
PAL_TIME_ENDED == 2
PAL_TEXT == 3
PAL_TIME == 4
PAL_TIME_DASH == 5

\* u32::max_value(), the placeholder of a field a layout stage assigns. It is
\* 4294967295; the model checker's integers end at 2^31 - 1, so the
\* placeholder is modelled by the largest of them. The program only ever
\* quantizes a placeholder, and like u32::MAX this value is at least 2^18.
U32Max == 2147483647

\* pub const fn rgb(col: u32) -> RGBInt (render_prims.rs)
rgb(c) == <<(c \div 65536) % 256, (c \div 256) % 256, c % 256>>

\* impl From<(u8,u8,u8)> for ByteColor
ByteColorFromRGB(t) == [r |-> t[1], g |-> t[2], b |-> t[3], a |-> 255]

\* 0xEFD4A5, 0x9BAEC0, 0x7D8D93, 0x694342, 0x7D5757, 0xC28979, 0xFF00FF,
\* 0x00FFFF
PALETTE ==
    <<rgb(15717541), rgb(10202816), rgb(8228243), rgb(6898498),
      rgb(8214359), rgb(12749177), rgb(16711935), rgb(65535)>>

\* pub fn config_datastream_info() -> DatastreamElements
config_datastream_info ==
    [datastream_width |-> U32Max,
     datastream_height |-> U32Max,
     viewport_h |-> VIEWPORT_HEIGHT,
     viewport_w |-> VIEWPORT_WIDTH,
     header_h |-> VARIABLE_TOP,
     footer_h |-> VIEWPORT_HEIGHT - VARIABLE_BOTTOM,
     border_l |-> LEFT_BORDER,
     border_r |-> RIGHT_BORDER,
     day_header_height |-> VARIABLE_HEADER_BOTTOM - VARIABLE_TOP,
     header_blend_start |-> HEADER_BLEND_START,
     header_blend_end |-> HEADER_BLEND_END,
     scroll_split_point |-> SCROLL_SPLIT_POINT,
     col_divs |-> <<TIME_COL_RIGHT, TIME_COL_RIGHT + EVENT_MARKER_WIDTH_ceil,
                    VIEWPORT_WIDTH>>,
     section_pad |-> SECTION_PAD,
     scroll_height |-> U32Max,
     scroll_tex_y |-> U32Max,
     bg_sample_y |-> U32Max,
     bg_sample_h |-> BG_SAMPLE_HEIGHT,
     header_tex_y |-> U32Max,
     footer_tex_y |-> U32Max,
     day_header_tex_x |-> U32Max,
     day_header_tex_alpha_x |-> U32Max,
     day_header_tex_y |-> U32Max,
     day_header_side_width |-> U32Max,
     day_header_true_width |-> U32Max,
     vdata |-> <<>>,
     palette |-> [i \in 1 .. 8 |-> ByteColorFromRGB(PALETTE[i])]]

(***************************************************************************)
(* The datastream serializer: src/src/datastream.rs                        *)
(***************************************************************************)

\* pub const FLAG_IS_DAY_HEADER : u32 = (1 << 17)
FLAG_IS_DAY_HEADER == 131072

\* RowColorInfo::Colors([u8;4])
Colors(c) == [kind |-> "Colors", colors |-> c]

\* RowColorInfo::DayHeader { offset }
DayHeader(o) == [kind |-> "DayHeader", offset |-> o]

\* struct VerticalData
VerticalData(prev, info) == [prev_day_header |-> prev, col_info |-> info]

\* offset | FLAG_IS_DAY_HEADER, on u32
OrFlag(offset) ==
    IF (offset \div FLAG_IS_DAY_HEADER) % 2 = 1
    THEN offset
    ELSE offset + FLAG_IS_DAY_HEADER

\* The mutant of PackColors: the first slot is the least significant.
PackColors_lsb(c) == c[4] * 512 + c[3] * 64 + c[2] * 8 + c[1]

\* (c[0] << 9) | (c[1] << 6) | (c[2] << 3) | c[3]; the groups do not overlap
\* when every index is below 8, which encode has checked by then.
PackColors(c) == c[1] * 512 + c[2] * 64 + c[3] * 8 + c[4]

\* The mutant of HeadFields: viewport_h and viewport_w in the order the
\* struct declares them.
HeadFields_declared ==
    <<"datastream_width", "datastream_height", "viewport_h", "viewport_w",
      "header_h", "footer_h", "border_l", "border_r", "day_header_height">>

\* encode, lines 230-241: the fields written before the column dividers.
HeadFields ==
    <<"datastream_width", "datastream_height", "viewport_w", "viewport_h",
      "header_h", "footer_h", "border_l", "border_r", "day_header_height">>

\* encode, lines 251-266: the fields written after the palette.
TailFields ==
    <<"section_pad", "scroll_height", "scroll_tex_y", "bg_sample_y",
      "bg_sample_h", "header_tex_y", "footer_tex_y", "day_header_tex_x",
      "day_header_tex_alpha_x", "day_header_tex_y", "day_header_side_width",
      "day_header_true_width", "header_blend_start", "header_blend_end",
      "scroll_split_point">>

\* One push of encode: write_elem!, a palette push, a prev_day_header push or
\* a row-info push.
ElemStep(v)  == [t |-> "elem", v |-> v]
ColorStep(c) == [t |-> "color", c |-> c]
PrevStep(v)  == [t |-> "prev", v |-> v]
RowStep(i)   == [t |-> "row", info |-> i]

\* The pushes of encode in the order the code makes them.
EncodeSteps(self) ==
    [i \in 1 .. Len(HeadFields) |-> ElemStep(self[HeadFields[i]])]
    \o [i \in 1 .. 3 |-> ElemStep(self.col_divs[i])]
    \o [i \in 1 .. 8 |-> ColorStep(self.palette[i])]
    \o [i \in 1 .. Len(TailFields) |-> ElemStep(self[TailFields[i]])]
    \o <<ElemStep(Len(self.vdata))>>
    \o [i \in 1 .. Len(self.vdata) |-> PrevStep(self.vdata[i].prev_day_header)]
    \o [i \in 1 .. Len(self.vdata) |-> RowStep(self.vdata[i].col_info)]

\* v.try_into().with_context(..)? : the error is returned.
TryQuantize(v, what) ==
    LET c == from_value(v)
    IN  IF c.kind = "ok" THEN c ELSE [kind |-> "err", what |-> what]

\* The mutant of ColorInRange: index 8 is accepted.
ColorInRange_gt(c) == ~(c > 8)

\* if col >= 8 { bail!("Color out of range") }
ColorInRange(c) == ~(c >= 8)

\* The mutant of EncodeRow: only the first 3 slots are checked.
EncodeRow_three(info) ==
    IF info.kind = "Colors"
    THEN IF \E j \in 1 .. 3 : ~ColorInRange(info.colors[j])
         THEN [kind |-> "err", what |-> "Color out of range"]
         ELSE TryQuantize(PackColors(info.colors), "color_info")
    ELSE LET c == from_value(OrFlag(info.offset))
         IN  IF c.kind = "ok" THEN c ELSE [kind |-> "panic"]

\* encode, lines 280-297: the pixel of one row's col_info. The DayHeader arm
\* unwraps the conversion: a failure there is a panic, not a returned error.
EncodeRow(info) ==
    IF info.kind = "Colors"
    THEN IF \E j \in 1 .. 4 : ~ColorInRange(info.colors[j])
         THEN [kind |-> "err", what |-> "Color out of range"]
         ELSE TryQuantize(PackColors(info.colors), "color_info")
    ELSE LET c == from_value(OrFlag(info.offset))
         IN  IF c.kind = "ok" THEN c ELSE [kind |-> "panic"]

\* What one push of encode yields: the pixel pushed, an error returned, or a
\* panic.
EncodeStep(step) ==
    CASE step.t = "elem"  -> TryQuantize(step.v, "converting")
      [] step.t = "color" -> [kind |-> "ok", color |-> step.c]
      [] step.t = "prev"  -> TryQuantize(step.v, "prev_day_header")
      [] step.t = "row"   -> EncodeRow(step.info)

RECURSIVE EncodeFrom(_, _, _)
\* The pushes from the i-th on, onto the pixels acc pushed so far; the first
\* failure ends the function.
EncodeFrom(steps, i, acc) ==
    IF i > Len(steps) THEN [kind |-> "ok", data |-> acc]
    ELSE LET r == EncodeStep(steps[i])
         IN  IF r.kind = "ok"
             THEN EncodeFrom(steps, i + 1, Append(acc, r.color))
             ELSE IF r.kind = "err"
                  THEN [kind |-> "err", what |-> r.what, at |-> i]
                  ELSE [kind |-> "panic", at |-> i]

\* pub fn encode(&self) -> Result<Vec<ByteColor>>
encode(self) == EncodeFrom(EncodeSteps(self), 1, <<>>)

\* fn to_array(self) -> [u8; 4]: the pixel as the u32 whose little-endian
\* bytes are [b, g, r, a], stored in native byte order. A pixel of the image
\* is modelled by those four bytes, least significant first.
to_array(c) == <<c.b, c.g, c.r, c.a>>

\* u32 arithmetic keeps 32 bits in a release build and panics on overflow in a
\* debug build.
Builds == {"debug", "release"}

\* The product w * h of two values below 2^18, as [q, r] with
\* w * h = q * 2^18 + r and r < 2^18, computed on 9-bit halves so that no
\* intermediate result passes 2^31.
Product(w, h) ==
    LET w1 == w \div 512
        w0 == w % 512
        h1 == h \div 512
        h0 == h % 512
        low == (w1 * h0 + w0 * h1) * 512 + w0 * h0
    IN  [q |-> w1 * h1 + low \div ValueLimit, r |-> low % ValueLimit]

\* The mutant of SpaceLeft: the capacity of the image, not of the datastream.
SpaceLeft_image(self, s, n, build) ==
    IF n > s.w * s.h THEN [kind |-> "full"] ELSE [kind |-> "ok"]

\* write, line 307: data.len() > (self.datastream_width *
\* self.datastream_height) as usize, for data of n elements. The u32 product
\* panics in a debug build when it passes 2^32 (q >= 2^14) and keeps its low
\* 32 bits in a release build. n is below 2^30, so a capacity of 2^30 or more
\* (q >= 2^12) is never exceeded. Both factors are below 2^18 here: encode
\* has quantized them.
SpaceLeft(self, s, n, build) ==
    LET p == Product(self.datastream_width, self.datastream_height)
    IN  IF p.q >= 16384 /\ build = "debug" THEN [kind |-> "panic"]
        ELSE LET q == p.q % 16384
             IN  IF q < 4096 /\ n > q * ValueLimit + p.r
                 THEN [kind |-> "full"]
                 ELSE [kind |-> "ok"]

\* The mutant of WritePos: the column is not mirrored.
WritePos_unmirrored(self, s, i) ==
    [y |-> i \div self.datastream_width, rx |-> i % self.datastream_width,
     x |-> i % self.datastream_width]

\* write, lines 315-321: where element i (0-based) of the data goes: chunk y,
\* place rx in the chunk, image column x.
WritePos(self, s, i) ==
    [y |-> i \div self.datastream_width, rx |-> i % self.datastream_width,
     x |-> s.w - (i % self.datastream_width) - 1]

\* Whether storing element i panics: the row slice is outside the image data,
\* or img_width - rx - 1 underflows (a panic in a debug build, an index out of
\* the row in a release build).
StorePanics(self, s, i) ==
    \/ WritePos(self, s, i).y >= s.h
    \/ WritePos(self, s, i).rx >= s.w

\* The pixels after elements 0 .. n-1 of data were stored in order.
Stored(self, s, data, n) ==
    [p \in DOMAIN s.px |->
        LET hits == {i \in 0 .. n - 1 :
                        /\ WritePos(self, s, i).y = p[1]
                        /\ WritePos(self, s, i).x = p[2]}
        IN  IF hits = {} THEN s.px[p]
            ELSE to_array(data[(CHOOSE i \in hits : \A j \in hits : j <= i) + 1])]

\* The mutant of write: the capacity is checked after the first element is
\* stored.
write_eager(self, s, build) ==
    LET enc == encode(self)
    IN  IF enc.kind # "ok" THEN [result |-> enc, surf |-> s]
        ELSE IF SpaceLeft(self, s, Len(enc.data), build).kind = "panic"
        THEN [result |-> [kind |-> "panic"], surf |-> s]
        ELSE IF self.datastream_width = 0
        THEN [result |-> [kind |-> "panic"], surf |-> s]
        ELSE IF SpaceLeft(self, s, Len(enc.data), build).kind = "full"
        THEN [result |-> [kind |-> "err",
                          what |-> "Not enough space for datastream"],
              surf |-> IF StorePanics(self, s, 0) THEN s
                       ELSE [s EXCEPT !.px = Stored(self, s, enc.data, 1)]]
        ELSE LET n   == Len(enc.data)
                 bad == {i \in 0 .. n - 1 : StorePanics(self, s, i)}
             IN  IF bad = {}
                 THEN [result |-> [kind |-> "ok"],
                       surf |-> [s EXCEPT !.px = Stored(self, s, enc.data, n)]]
                 ELSE LET first == CHOOSE i \in bad : \A j \in bad : i <= j
                      IN  [result |-> [kind |-> "panic"],
                           surf |-> [s EXCEPT
                                       !.px = Stored(self, s, enc.data, first)]]

\* pub fn write(&self, surf: &mut cairo::ImageSurface) -> Result<()>
write(self, s, build) ==
    LET enc == encode(self)
    IN  IF enc.kind # "ok" THEN [result |-> enc, surf |-> s]
        ELSE IF SpaceLeft(self, s, Len(enc.data), build).kind = "panic"
        THEN [result |-> [kind |-> "panic"], surf |-> s]
        ELSE IF SpaceLeft(self, s, Len(enc.data), build).kind = "full"
        THEN [result |-> [kind |-> "err",
                          what |-> "Not enough space for datastream"],
              surf |-> s]
        ELSE IF self.datastream_width = 0
        THEN [result |-> [kind |-> "panic"], surf |-> s]
        ELSE LET n   == Len(enc.data)
                 bad == {i \in 0 .. n - 1 : StorePanics(self, s, i)}
             IN  IF bad = {}
                 THEN [result |-> [kind |-> "ok"],
                       surf |-> [s EXCEPT !.px = Stored(self, s, enc.data, n)]]
                 ELSE LET first == CHOOSE i \in bad : \A j \in bad : i <= j
                      IN  [result |-> [kind |-> "panic"],
                           surf |-> [s EXCEPT
                                       !.px = Stored(self, s, enc.data, first)]]

\* The size of the image written to, in pixels.
ImgW == 8
ImgH == 6

\* The most VerticalData rows of a record tried.
MaxRows == 2

\* The image before write, as <<y, x>> |-> pixel: every pixel differs from
\* every other and from every pixel write stores (whose alpha byte is 0xFF).
InitialSurf ==
    [w |-> ImgW, h |-> ImgH,
     px |-> [p \in (0 .. ImgH - 1) \X (0 .. ImgW - 1) |-> <<p[1], p[2], 0, 0>>]]

\* The record once the layout stages have assigned their fields
\* (layout_template, compute_full_layout), for one geometry: a datastream of
\* w by h pixels.
AssignLayout(d, w, h) ==
    [d EXCEPT !.datastream_width = w,
              !.datastream_height = h,
              !.day_header_side_width = 8,
              !.day_header_tex_x = 126,
              !.day_header_tex_alpha_x = 206,
              !.day_header_tex_y = 0,
              !.day_header_true_width = 930,
              !.day_header_height = 96,
              !.header_tex_y = 160,
              !.footer_tex_y = 817,
              !.bg_sample_y = 1015,
              !.scroll_height = 431,
              !.scroll_tex_y = 1111]

\* The datastream sizes tried: too small for the fixed part, exactly the fixed
\* part, room for one and for two rows, wider than the image, taller than the
\* image, zero, a product past 32 bits, and a width that cannot be encoded.
DimsTried ==
    {<<8, 4>>, <<6, 6>>, <<7, 6>>, <<8, 5>>, <<5, 8>>, <<9, 5>>, <<4, 10>>,
     <<0, 5>>, <<131072, 32768>>, <<ValueLimit, 1>>}

\* The rows tried: colour rows with every index in range, with one index out
\* of range in each slot, and day-header rows with a small offset, an offset
\* that has bit 17 set, and one that does not fit 18 bits; a back-pointer that
\* does not fit.
RowsTried ==
    {VerticalData(0, Colors(<<4, 3, 3, 3>>)),
     VerticalData(1, Colors(<<7, 0, 5, 2>>)),
     VerticalData(0, Colors(<<8, 3, 3, 3>>)),
     VerticalData(0, Colors(<<3, 9, 3, 3>>)),
     VerticalData(0, Colors(<<3, 3, 255, 3>>)),
     VerticalData(0, Colors(<<3, 3, 3, 8>>)),
     VerticalData(0, DayHeader(0)),
     VerticalData(1, DayHeader(5)),
     VerticalData(0, DayHeader(FLAG_IS_DAY_HEADER + 1)),
     VerticalData(0, DayHeader(ValueLimit)),
     VerticalData(ValueLimit, Colors(<<4, 3, 3, 3>>))}

\* The tables of at most n rows.
RECURSIVE TablesUpTo(_)
TablesUpTo(n) ==
    IF n = 0 THEN {<<>>}
    ELSE LET shorter == TablesUpTo(n - 1)
         IN  shorter \cup {Append(t, r) : t \in shorter, r \in RowsTried}

\* The scalar fields of the record other than the datastream size.
ScalarFields ==
    {HeadFields[i] : i \in 3 .. Len(HeadFields)}
    \cup {TailFields[i] : i \in 1 .. Len(TailFields)}

\* The values put in one field: the largest that fits 18 bits and the first
\* that does not.
EdgeValues == {ValueLimit - 1, ValueLimit}

\* The records tried: every size with every table, and, for one size, every
\* scalar field and column divider at an edge value with a table of at most
\* one row.
RecordsTried ==
    LET base == config_datastream_info
    IN  {[AssignLayout(base, d[1], d[2]) EXCEPT !.vdata = t] :
            d \in DimsTried, t \in TablesUpTo(MaxRows)}
        \cup {[AssignLayout(base, 8, 5) EXCEPT ![f] = v, !.vdata = t] :
                f \in ScalarFields, v \in EdgeValues, t \in TablesUpTo(1)}
        \cup {[AssignLayout(base, 8, 5) EXCEPT !.col_divs[i] = v, !.vdata = t] :
                i \in 1 .. 3, v \in EdgeValues, t \in TablesUpTo(1)}

InitDS ==
    /\ ds \in RecordsTried
    /\ surf = InitialSurf
    /\ encoded = None
    /\ wres = None
    /\ IdleQuant /\ IdleStack /\ IdlePad /\ IdleLayout
    /\ IdleRender /\ IdleFn

\* self.encode()
Encode ==
    /\ encoded = None
    /\ encoded' = encode(ds)
    /\ UNCHANGED <<ds, surf, wres, quantVars, stackVars, padVars, layoutVars,
                 renderVars, fnVars>>

\* self.write(&mut surf), in either build
Write ==
    /\ wres = None
    /\ \E build \in Builds :
          LET r == write(ds, surf, build)
          IN  /\ wres' = r.result
              /\ surf' = r.surf
    /\ UNCHANGED <<ds, encoded, quantVars, stackVars, padVars, layoutVars,
                 renderVars, fnVars>>

NextDS == Encode \/ Write

SpecDS == InitDS /\ [][NextDS]_vars

(***************************************************************************)
(* Render primitives: src/src/render_prims.rs                              *)
(*                                                                         *)
(* A renderable is a record tagged with its type. Rc and Box wrappers      *)
(* (RcRenderable, Rc<dyn Renderable>, Box<dyn Renderable>) forward bounds  *)
(* and render to what they wrap and are not modelled as nodes.             *)
(***************************************************************************)

\* Lengths of the layout are f64 pixels that are whole, halves (a height
\* divided by 2.0) or EVENT_MARKER_WIDTH (16.0 * 0.866); they are kept exactly
\* as whole numbers of thousandths of a pixel. The column and padding
\* machines use whole pixels; bounds are sums and maxima in either unit.
Px(n) == n * 1000

\* f64::floor and f64::ceil of a length, in pixels
Floor(len) == len \div 1000
Ceil(len) == (len + 999) \div 1000

\* pub const EVENT_MARKER_WIDTH: f64 = EVENT_MARKER_HEIGHT * 0.866, in
\* thousandths of a pixel
EVENT_MARKER_WIDTH == EVENT_MARKER_HEIGHT * 866

\* TextBox::new: the box pango measured, its width, height and min_baseline
\* each rounded up to a whole pixel. m is the measurement in pixels. (A
\* layout without an iterator would keep the unrounded size; not tried.)
TextBox(m) ==
    [kind |-> "TextBox", w |-> Px(m.w), h |-> Px(m.h),
     min_baseline |-> Px(m.min_baseline)]

\* EventMarker { is_ended }
EventMarker(is_ended) == [kind |-> "EventMarker", is_ended |-> is_ended]

\* Separator { width, thickness, margin, .. }
Separator(w, thickness, margin) ==
    [kind |-> "Separator", width |-> w, thickness |-> thickness, margin |-> margin]

\* A leaf with the given bounds that paints its own w x h pixels at the
\* origin: cairo::ImageSurface, TextBox, FillRect::rect.
Leaf(w, h) == [kind |-> "Leaf", w |-> w, h |-> h]

\* Pad::new(w, h): bounds only, paints nothing.
Pad(w, h) == [kind |-> "Pad", w |-> w, h |-> h]

\* RenderableEx::offset(x, y): RenderTranslate { inner, offset }
Translate(inner, x, y) == [kind |-> "Translate", inner |-> inner, x |-> x, y |-> y]

\* RenderableEx::clip_to(Rectangle { x, y, width, height })
Clip(inner, x, y, w, h) ==
    [kind |-> "Clip", inner |-> inner, x |-> x, y |-> y, w |-> w, h |-> h]

\* RenderableEx::scale_by(w, h)
Scale(inner, sx, sy) == [kind |-> "Scale", inner |-> inner, sx |-> sx, sy |-> sy]

\* SwapXY::new(inner)
SwapXY(inner) == [kind |-> "SwapXY", inner |-> inner]

\* RenderableEx::with_operator(operator): WithOperator { inner, operator }
WithOperator(inner, operator) ==
    [kind |-> "WithOperator", inner |-> inner, operator |-> operator]

\* Renderable::test_border(): TestBorder { r }
TestBorder(inner) == [kind |-> "TestBorder", inner |-> inner]

\* A TextBox for which pangocairo::create_layout gives no layout when it is
\* painted, so that prepare_layout fails.
TextBoxNoLayout(m) == [TextBox(m) EXCEPT !.kind = "TextBoxNoLayout"]

\* RenderGroup::new()
RenderGroup_new == [kind |-> "Group", items |-> <<>>]

\* RenderGroup::push(&mut self, item)
RenderGroup_push(self, item) == [self EXCEPT !.items = Append(@, item)]

\* RenderColumn::new()
RenderColumn_new == [kind |-> "Column", items |-> <<>>, height |-> 0, width |-> 0]

RECURSIVE bounds(_)
RECURSIVE GroupBounds(_, _, _, _)

\* RenderGroup::bounds: the loop over the items from the i-th on, with the
\* running w and h.
GroupBounds(items, i, w, h) ==
    IF i > Len(items) THEN <<w, h>>
    ELSE LET b == bounds(items[i])
         IN  GroupBounds(items, i + 1,
                         IF b[1] > w THEN b[1] ELSE w,
                         IF b[2] > h THEN b[2] ELSE h)

RECURSIVE EntriesBounds(_, _, _, _)
\* impl Renderable for Vec<EventStackEntry> (main.rs): bounds
EntriesBounds(items, i, w, h) ==
    IF i > Len(items) THEN <<w, h>>
    ELSE LET b == bounds(items[i].renderable)
         IN  EntriesBounds(items, i + 1, Max(w, b[1]), h + b[2])

\* Renderable::bounds of each type
bounds(r) ==
    CASE r.kind \in {"Leaf", "Pad", "TextBox", "TextBoxNoLayout"} -> <<r.w, r.h>>
      [] r.kind = "SwapXY" -> <<bounds(r.inner)[2], bounds(r.inner)[1]>>
      [] r.kind \in {"WithOperator", "TestBorder"} -> bounds(r.inner)
      [] r.kind = "EventMarker" -> <<EVENT_MARKER_WIDTH, Px(EVENT_MARKER_HEIGHT)>>
      [] r.kind = "Separator" -> <<r.width, r.thickness + r.margin>>
      [] r.kind = "Translate" ->
            <<bounds(r.inner)[1] + r.x, bounds(r.inner)[2] + r.y>>
      [] r.kind = "Clip" -> <<r.w, r.h>>
      [] r.kind = "Scale" ->
            <<Max(0, bounds(r.inner)[1] * r.sx), Max(0, bounds(r.inner)[2] * r.sy)>>
      [] r.kind = "Group" -> GroupBounds(r.items, 1, 0, 0)
      [] r.kind = "Column" -> <<r.width, r.height>>
      [] r.kind = "Entries" -> EntriesBounds(r.items, 1, 0, 0)

\* Renderable::width, Renderable::height
width(r) == bounds(r)[1]
height(r) == bounds(r)[2]

\* The mutant of RenderColumn_push: the column's height becomes the height of
\* the child, not of the child placed at its offset.
RenderColumn_push_unplaced(self, item) ==
    LET offset == self.height
        placed == Translate(item, 0, offset)
    IN  [col |-> [self EXCEPT !.height = height(item),
                              !.width = Max(self.width, width(placed)),
                              !.items = Append(@, placed)],
         ret |-> offset]

\* RenderColumn::push(&mut self, item) -> f64: the column after the push and
\* the value returned.
RenderColumn_push(self, item) ==
    LET offset == self.height
        placed == Translate(item, 0, offset)
    IN  [col |-> [self EXCEPT !.height = height(placed),
                              !.width = IF width(placed) > self.width
                                        THEN width(placed) ELSE self.width,
                              !.items = Append(@, placed)],
         ret |-> offset]

\* The mutant of pad_vertical: the far slice starts at rh, one past the last
\* row.
pad_vertical_past(r, pad_above, pad_below) ==
    LET rw == width(r)
        rh == height(r)
        Part(clip_height, clip_start, scale, offset) ==
            IF scale > 0
            THEN <<Translate(Scale(Clip(r, 0, clip_start, rw, clip_height),
                                   1, scale), 0, offset)>>
            ELSE <<>>
    IN  [kind |-> "Group",
         items |-> Part(1, 0, pad_above, 0)
                   \o Part(rh, 0, 1, pad_above)
                   \o Part(1, rh, pad_below, pad_above + rh)]

\* pub fn pad_vertical(r, pad_above: f64, pad_below: f64) -> RcRenderable
pad_vertical(r, pad_above, pad_below) ==
    LET rw == width(r)
        rh == height(r)
        Part(clip_height, clip_start, scale, offset) ==
            IF scale > 0
            THEN <<Translate(Scale(Clip(r, 0, clip_start, rw, clip_height),
                                   1, scale), 0, offset)>>
            ELSE <<>>
    IN  [kind |-> "Group",
         items |-> Part(1, 0, pad_above, 0)
                   \o Part(rh, 0, 1, pad_above)
                   \o Part(1, rh - 1, pad_below, pad_above + rh)]

\* pub fn pad_sides(r, pad_left: f64, pad_right: f64) -> RcRenderable
pad_sides(r, pad_left, pad_right) ==
    LET rw == width(r)
        rh == height(r)
        Part(clip_w, clip_start, scale, offset) ==
            IF scale > 0
            THEN <<Translate(Scale(Clip(r, clip_start, 0, clip_w, rh),
                                   scale, 1), offset, 0)>>
            ELSE <<>>
    IN  [kind |-> "Group",
         items |-> Part(1, 0, pad_left, 0)
                   \o Part(rw, 0, 1, pad_left)
                   \o Part(1, rw - 1, pad_right, pad_left + rw)]

\* No pixel of a leaf is painted at the place asked.
NoHit == [hit |-> FALSE]

RECURSIVE Sample(_, _, _)
RECURSIVE SampleItems(_, _, _, _)

\* render_internal of RenderGroup and RenderColumn: the items are painted in
\* order, so of the items from the i-th down the last that paints the pixel
\* shows.
SampleItems(items, i, px, py) ==
    IF i = 0 THEN NoHit
    ELSE LET s == Sample(items[i], px, py)
         IN  IF s.hit THEN s ELSE SampleItems(items, i - 1, px, py)

\* render_internal of each type, read backwards: which pixel (x, y) of which
\* leaf shows at the pixel (px, py) of the target, in the coordinates of the
\* renderable. Translate moves the origin (render_to: cr.translate), Clip
\* moves the origin back by the rectangle's corner and restricts painting to
\* the rectangle, Scale draws each source pixel sx by sy pixels large.
Sample(r, px, py) ==
    CASE r.kind = "Leaf" ->
            IF px >= 0 /\ px < r.w /\ py >= 0 /\ py < r.h
            THEN [hit |-> TRUE, x |-> px, y |-> py]
            ELSE NoHit
      [] r.kind = "Pad" -> NoHit
      [] r.kind = "Translate" -> Sample(r.inner, px - r.x, py - r.y)
      [] r.kind = "Clip" ->
            IF px >= 0 /\ px < r.w /\ py >= 0 /\ py < r.h
            THEN Sample(r.inner, px + r.x, py + r.y)
            ELSE NoHit
      [] r.kind = "Scale" ->
            IF r.sx > 0 /\ r.sy > 0
            THEN Sample(r.inner, px \div r.sx, py \div r.sy)
            ELSE NoHit
      [] r.kind \in {"Group", "Column"} ->
            SampleItems(r.items, Len(r.items), px, py)

\* The most children pushed.
MaxChildren == 3

\* The widths and heights of the children pushed.
ChildWidths == {0, 2, 5}
ChildHeights == {0, 1, 3}

InitStack ==
    /\ col = RenderColumn_new
    /\ grp = RenderGroup_new
    /\ pushed = <<>>
    /\ rets = <<>>
    /\ IdleQuant /\ IdleDS /\ IdlePad /\ IdleLayout
    /\ IdleRender /\ IdleFn

\* A child of w by h is pushed on the column and on the group.
Push(w, h) ==
    /\ Len(pushed) < MaxChildren
    /\ LET r == RenderColumn_push(col, Leaf(w, h))
       IN  /\ col' = r.col
           /\ rets' = Append(rets, r.ret)
    /\ grp' = RenderGroup_push(grp, Leaf(w, h))
    /\ pushed' = Append(pushed, <<w, h>>)
    /\ UNCHANGED <<quantVars, dsVars, padVars, layoutVars,
                 renderVars, fnVars>>

NextStack == \E w \in ChildWidths, h \in ChildHeights : Push(w, h)

SpecStack == InitStack /\ [][NextStack]_vars

\* The largest width and height of the source padded, and the largest padding.
MaxDim == 3
MaxPad == 2

InitPad ==
    /\ padcall = None
    /\ padded = None
    /\ IdleQuant /\ IdleDS /\ IdleStack /\ IdleLayout
    /\ IdleRender /\ IdleFn

\* pad_vertical(source, a, b) for a source of w by h
PadVertical(w, h, a, b) ==
    /\ padcall' = [kind |-> "pad_vertical", w |-> w, h |-> h, a |-> a, b |-> b]
    /\ padded' = pad_vertical(Leaf(w, h), a, b)
    /\ UNCHANGED <<quantVars, dsVars, stackVars, layoutVars,
                 renderVars, fnVars>>

\* pad_sides(source, a, b) for a source of w by h
PadSides(w, h, a, b) ==
    /\ padcall' = [kind |-> "pad_sides", w |-> w, h |-> h, a |-> a, b |-> b]
    /\ padded' = pad_sides(Leaf(w, h), a, b)
    /\ UNCHANGED <<quantVars, dsVars, stackVars, layoutVars,
                 renderVars, fnVars>>

NextPad ==
    \E w \in 1 .. MaxDim, h \in 1 .. MaxDim, a \in 0 .. MaxPad, b \in 0 .. MaxPad :
        \/ PadVertical(w, h, a, b)
        \/ PadSides(w, h, a, b)

SpecPad == InitPad /\ [][NextPad]_vars

(***************************************************************************)
(* The variable layout: src/src/main.rs                                    *)
(*                                                                         *)
(* A CalendarEvent is [start_hour, end_time, text]: the hour of            *)
(* start_time, end_time as None or [kind |-> "some", past |-> whether it   *)
(* is before Local::now()], and what pango measures for its three texts.   *)
(* A CalendarDay is [title, events], title being the measure of its date   *)
(* string. TextBox::new failing (a pango error) is not modelled.           *)
(***************************************************************************)

\* SetupInfo.header_template_margin, in pixels (setup_environment)
header_template_margin == 16

\* The measure of the filler text of a day without events under the fonts
\* of the days tried.
FillerMeasure == [w |-> 391, h |-> 29, min_baseline |-> 23]

EventStackEntry(renderable, colors, is_day_header) ==
    [renderable |-> renderable, colors |-> colors, is_day_header |-> is_day_header]

\* fn layout_single_event(sample_context, setup, event) -> Result<EventStackEntry>
layout_single_event(event) ==
    LET is_ended == event.end_time # None /\ event.end_time.past
        start_time_text == TextBox(event.text.start)
        has_end == event.end_time # None
        end_baseline == IF has_end THEN TextBox(event.text.end).min_baseline ELSE 0
        end_time_text == IF has_end THEN TextBox(event.text.end) ELSE Pad(0, 0)
        start_width == width(start_time_text)
        end_width == width(end_time_text)
        start_offset == Px(TIME_COL_LEFT) + Px(8)
        end_offset == start_offset + start_width
        end_placed ==
            IF end_offset + width(end_time_text) < Px(TIME_COL_RIGHT)
            THEN Translate(end_time_text, end_offset,
                           start_time_text.min_baseline - end_baseline)
            ELSE Translate(end_time_text, Px(TIME_COL_RIGHT) - end_width,
                           start_time_text.min_baseline)
        start_placed == Translate(start_time_text, start_offset, 0)
        desc_text == TextBox(event.text.desc)
    IN  EventStackEntry(
            [kind |-> "Group",
             items |-> << Translate(EventMarker(is_ended), 0,
                                    height(start_placed) \div 2),
                          start_placed,
                          end_placed,
                          Translate(desc_text, Px(EVENT_INFO_LEFT), 0) >>],
            IF is_ended
            THEN <<PAL_TIME_ENDED, PAL_TEXT_ENDED, PAL_TEXT_ENDED, PAL_TEXT_ENDED>>
            ELSE <<PAL_TIME, PAL_TEXT, PAL_TEXT, PAL_TEXT>>,
            FALSE)

\* layout_day: the entry of the day's header
DayHeaderEntry(day) ==
    LET day_title == TextBox(day.title)
        center_width == Px(VARIABLE_OUTER_RIGHT - VARIABLE_OUTER_LEFT)
        x_offset == (center_width - width(day_title)) \div 2
        y_offset == (Px(DAY_HEADER_HEIGHT) - height(day_title)) \div 2
        placed == Translate(day_title, Px(VARIABLE_OUTER_LEFT) + x_offset, y_offset)
        col1 == RenderColumn_push(RenderColumn_new, placed).col
        col2 == RenderColumn_push(col1, Pad(0, y_offset)).col
    IN  EventStackEntry(col2, <<PAL_DATE, PAL_DATE, PAL_DATE, PAL_DATE>>, TRUE)

\* layout_day: the margin entry after the header and after the last event
MarginEntry ==
    EventStackEntry(Pad(0, Px(header_template_margin)),
                    <<PAL_TEXT, PAL_TEXT, PAL_TEXT, PAL_TEXT>>, FALSE)

\* layout_day: the entry of the filler text of a day without events
FillerEntry ==
    LET filler_text == TextBox(FillerMeasure)
        w == width(filler_text)
    IN  EventStackEntry(
            Translate(filler_text,
                      Px(VARIABLE_OUTER_LEFT)
                        + (Px(VARIABLE_OUTER_RIGHT - VARIABLE_OUTER_LEFT) - w) \div 2,
                      0),
            <<PAL_TEXT, PAL_TEXT, PAL_TEXT, PAL_TEXT>>, FALSE)

\* The mutant of SeparatorEntry: the colours are an index PALETTE does not
\* have.
SeparatorEntry_off ==
    EventStackEntry(
        Translate(Separator(Px(TIME_COL_RIGHT - TIME_COL_LEFT), Px(2), Px(4)),
                  Px(TIME_COL_LEFT), 0),
        <<8, 8, 8, 8>>, FALSE)

\* layout_day: the separator entry between events of different hours
SeparatorEntry ==
    EventStackEntry(
        Translate(Separator(Px(TIME_COL_RIGHT - TIME_COL_LEFT), Px(2), Px(4)),
                  Px(TIME_COL_LEFT), 0),
        <<PAL_TIME_DASH, PAL_TIME_DASH, PAL_TIME_DASH, PAL_TIME_DASH>>, FALSE)

RECURSIVE EventEntries_always(_, _)
\* The mutant of EventEntries: a separator between every two events.
EventEntries_always(events, i) ==
    IF i > Len(events) THEN <<>>
    ELSE (IF i > 1 THEN <<SeparatorEntry>> ELSE <<>>)
         \o <<layout_single_event(events[i])>>
         \o EventEntries_always(events, i + 1)

RECURSIVE EventEntries(_, _)
\* layout_day: the loop over day.events, from the i-th event on
EventEntries(events, i) ==
    IF i > Len(events) THEN <<>>
    ELSE (IF i > 1 /\ events[i - 1].start_hour # events[i].start_hour
          THEN <<SeparatorEntry>> ELSE <<>>)
         \o <<layout_single_event(events[i])>>
         \o EventEntries(events, i + 1)

\* The mutant of layout_day: the filler is appended before the margin.
layout_day_filler_first(day) ==
    <<DayHeaderEntry(day)>>
    \o (IF day.events = <<>> THEN <<FillerEntry>> ELSE <<>>)
    \o <<MarginEntry>>
    \o EventEntries(day.events, 1)
    \o <<MarginEntry>>

\* fn layout_day(sample_context, setup, day, entries): the entries appended
layout_day(day) ==
    <<DayHeaderEntry(day), MarginEntry>>
    \o (IF day.events = <<>> THEN <<FillerEntry>> ELSE <<>>)
    \o EventEntries(day.events, 1)
    \o <<MarginEntry>>

RECURSIVE LayoutDays(_, _)
\* generate_variable_layout: for day in days { layout_day(.., &mut entries) }
LayoutDays(dys, i) ==
    IF i > Len(dys) THEN <<>> ELSE layout_day(dys[i]) \o LayoutDays(dys, i + 1)

\* The mutant of LimitReached: the budget is passed by one row.
LimitReached_gt(len, vdata_limit) == len > vdata_limit

\* generate_variable_layout: if vdata.len() >= vdata_limit { break 'outer; }
LimitReached(len, vdata_limit) == len >= vdata_limit

\* The mutant of RowFor: the row of a day header carries the header's colours.
RowFor_colors(entry, len, initial_y, prev_header) ==
    VerticalData(prev_header, Colors(entry.colors))

\* generate_variable_layout: the row pushed at index len for the entry
RowFor(entry, len, initial_y, prev_header) ==
    VerticalData(prev_header,
                 IF entry.is_day_header
                 THEN DayHeader(len - initial_y)
                 ELSE Colors(entry.colors))

RECURSIVE FillRows(_, _, _, _, _, _)
\* generate_variable_layout: the loop over the entries from the i-th on, y
\* being the sum of the heights before it. Gives the table at the end.
FillRows(entries, i, y, prev_header, vd, vdata_limit) ==
    IF i > Len(entries) THEN vd
    ELSE LET entry == entries[i]
             initial_y == Floor(y)
             y2 == y + height(entry.renderable)
             header == IF entry.is_day_header THEN Len(vd) ELSE prev_header
             n == Len(vd)
             \* the indices the while loop wants to fill
             wanted == n .. Ceil(y2) - 1
             \* those it reaches before the limit stops it
             filled == {k \in wanted : \A j \in n .. k : ~LimitReached(j, vdata_limit)}
             vd2 == vd \o [k \in 1 .. Cardinality(filled) |->
                              RowFor(entry, n + k - 1, initial_y, header)]
         IN  IF filled # wanted
             THEN vd2
             ELSE FillRows(entries, i + 1, y2, header, vd2, vdata_limit)

\* fn generate_variable_layout(sample_context, setup, days, vdata,
\* height_limit) -> Result<RcRenderable>: the table after the call and the
\* renderable returned.
generate_variable_layout(dys, vd, limit) ==
    LET entries == LayoutDays(dys, 1)
    IN  [vdata |-> FillRows(entries, 1, 0, 0, vd, limit),
         result |-> [kind |-> "ok",
                     value |-> [kind |-> "Entries", items |-> entries]]]

\* The most events of a day.
MaxEvents == 3

\* The measures of the texts of the events tried: a start time of even and
\* of odd height, an end time that fits beside the start time and one that
\* goes to the next line, a description of one and of two lines.
StartEven == [w |-> 58, h |-> 22, min_baseline |-> 18]
StartOdd == [w |-> 58, h |-> 23, min_baseline |-> 19]
EndShort == [w |-> 40, h |-> 15, min_baseline |-> 12]
EndLong == [w |-> 57, h |-> 15, min_baseline |-> 12]
DescOne == [w |-> 410, h |-> 24, min_baseline |-> 19]
DescTwo == [w |-> 788, h |-> 48, min_baseline |-> 19]

\* The events tried.
EventsTried ==
    { [start_hour |-> 21, end_time |-> None,
       text |-> [start |-> StartEven, end |-> EndShort, desc |-> DescOne]],
      [start_hour |-> 21, end_time |-> [kind |-> "some", past |-> TRUE],
       text |-> [start |-> StartOdd, end |-> EndShort, desc |-> DescOne]],
      [start_hour |-> 22, end_time |-> [kind |-> "some", past |-> FALSE],
       text |-> [start |-> StartEven, end |-> EndLong, desc |-> DescTwo]] }

RECURSIVE EventListsUpTo(_)
\* The lists of up to n events in the order fetch_calendar leaves them in:
\* sorted by start time.
EventListsUpTo(n) ==
    IF n = 0 THEN {<<>>}
    ELSE LET shorter == EventListsUpTo(n - 1)
         IN  shorter \cup
             {Append(l, e) : l \in {x \in shorter : Len(x) = n - 1},
                             e \in EventsTried}

\* The measure of the date string of the days tried.
TitleMeasure == [w |-> 121, h |-> 30, min_baseline |-> 24]

Sorted(events) ==
    \A i \in 1 .. Len(events) - 1 : events[i].start_hour <= events[i + 1].start_hour

\* The days fetch_calendar gives: at least one event, sorted.
FetchedDays(n) ==
    {[title |-> TitleMeasure, events |-> l] :
        l \in {x \in EventListsUpTo(n) : x # <<>> /\ Sorted(x)}}

\* fn sample_data() -> Vec<CalendarDay>: one day without events
sample_data == <<[title |-> TitleMeasure, events |-> <<>>]>>

\* The lists of days tried: none, the sample data, one fetched day, and a
\* fetched day followed by a day of one event.
DayListsTried ==
    {<<>>, sample_data}
    \cup {<<d>> : d \in FetchedDays(MaxEvents)}
    \cup {<<d, e>> : d \in FetchedDays(MaxEvents), e \in FetchedDays(1)}

\* The row budgets tried: none, one that ends with the first day's header,
\* two that end inside the first day, one that ends inside the second day,
\* and one that no list tried fills.
BudgetsTried == {0, 95, 120, 150, 222, 2184}

InitLayout ==
    /\ days \in DayListsTried
    /\ height_limit \in BudgetsTried
    /\ vdata = <<>>
    /\ layout = None
    /\ IdleQuant /\ IdleDS /\ IdleStack /\ IdlePad
    /\ IdleRender /\ IdleFn

\* generate_variable_layout(.., days, &mut vdata, height_limit), called once
\* on the empty table of config_datastream_info.
GenerateVariableLayout ==
    /\ layout = None
    /\ LET r == generate_variable_layout(days, vdata, height_limit)
       IN  /\ vdata' = r.vdata
           /\ layout' = r.result
    /\ UNCHANGED <<days, height_limit, quantVars, dsVars, stackVars, padVars,
                 renderVars, fnVars>>

NextLayout == GenerateVariableLayout

SpecLayout == InitLayout /\ [][NextLayout]_vars

(***************************************************************************)
(* Painting: Renderable::render on a cairo::Context                        *)
(*                                                                         *)
(* A context is [stack, gs, drawn]: the graphics states saved, the current *)
(* one, and what was drawn on the target surface so far, in order, each    *)
(* with the transform it was drawn in. A graphics state is [ctm, clip,     *)
(* operator]: the transform as the                                         *)
(* matrix [xx, yx, xy, yy, x0, y0], the clip as the list of the rectangles *)
(* clipped to, each with the transform it was given in, and the            *)
(* compositing operator. The source, the path and the line style are not   *)
(* kept. Lengths are in thousandths of a pixel.                            *)
(***************************************************************************)

\* cairo_save
cr_save(c) == [c EXCEPT !.stack = Append(@, c.gs)]

\* cairo_restore; render always saves before, so the stack is never empty.
cr_restore(c) ==
    [c EXCEPT !.stack = SubSeq(c.stack, 1, Len(c.stack) - 1),
              !.gs = c.stack[Len(c.stack)]]

\* cairo_translate(tx, ty)
cr_translate(c, tx, ty) ==
    LET m == c.gs.ctm
    IN  [c EXCEPT !.gs.ctm = [m EXCEPT !.x0 = m.x0 + m.xx * tx + m.xy * ty,
                                       !.y0 = m.y0 + m.yx * tx + m.yy * ty]]

\* cairo_scale(sx, sy)
cr_scale(c, sx, sy) ==
    LET m == c.gs.ctm
    IN  [c EXCEPT !.gs.ctm = [m EXCEPT !.xx = m.xx * sx, !.yx = m.yx * sx,
                                       !.xy = m.xy * sy, !.yy = m.yy * sy]]

\* cairo_transform(Matrix::new(0, 1, 1, 0, 0, 0)): x and y change places.
cr_swap(c) ==
    LET m == c.gs.ctm
    IN  [c EXCEPT !.gs.ctm = [m EXCEPT !.xx = m.xy, !.yx = m.yy,
                                       !.xy = m.xx, !.yy = m.yx]]

\* cairo_rectangle(x, y, w, h); cairo_clip
cr_clip(c, x, y, w, h) ==
    [c EXCEPT !.gs.clip = Append(@, [ctm |-> c.gs.ctm, x |-> x, y |-> y,
                                     w |-> w, h |-> h])]

\* cairo_set_operator
cr_set_operator(c, operator) == [c EXCEPT !.gs.operator = operator]

\* cairo_fill, cairo_stroke, pangocairo::show_layout: the renderable r is drawn
\* on the target.
cr_draw(c, r) == [c EXCEPT !.drawn = Append(@, [what |-> r, ctm |-> c.gs.ctm])]

\* pub const FONT_SCALE : f64 = 1.0
FONT_SCALE == 1

\* Ok(()) and Err(..) of a render_internal, with the context it leaves; the
\* error is named by the renderable that raised it.
Painted(c) == [cx |-> c, result |-> "ok", error |-> None]
Failed(c, r) == [cx |-> c, result |-> "err", error |-> r]

RECURSIVE render(_, _)
RECURSIVE render_internal(_, _)
RECURSIVE render_items(_, _, _)
RECURSIVE render_entries(_, _, _, _)

\* Renderable::render(&self, cr): save, move_to, render_internal, restore.
render(r, c) ==
    LET res == render_internal(r, cr_save(c))
    IN  [res EXCEPT !.cx = cr_restore(res.cx)]

\* Renderable::render_to(&self, cr, origin): save, translate, render,
\* restore.
render_to(r, c, ox, oy) ==
    LET res == render(r, cr_translate(cr_save(c), ox, oy))
    IN  [res EXCEPT !.cx = cr_restore(res.cx)]

\* The mutant of render_items: the loop goes on after an item's error and
\* returns the last one.
RECURSIVE render_items_on(_, _, _)
render_items_on(items, i, c) ==
    IF i > Len(items) THEN Painted(c)
    ELSE LET res == render(items[i], c)
             rest == render_items_on(items, i + 1, res.cx)
         IN  IF res.result = "err" /\ rest.result = "ok"
             THEN [res EXCEPT !.cx = rest.cx]
             ELSE rest

\* RenderGroup::render_internal and RenderColumn::render_internal: the loop
\* from the i-th item on, `?` leaving it at the first error.
render_items(items, i, c) ==
    IF i > Len(items) THEN Painted(c)
    ELSE LET res == render(items[i], c)
         IN  IF res.result = "err" THEN res
             ELSE render_items(items, i + 1, res.cx)

\* impl Renderable for Vec<EventStackEntry>: render_internal, the loop from
\* the i-th entry on. entry.render_to saves, translates and calls the
\* entry's render, whose render_internal is that of the Rc of the
\* renderable: the renderable's render.
render_entries(items, i, y, c) ==
    IF i > Len(items) THEN Painted(c)
    ELSE LET c1 == cr_save(cr_translate(cr_save(c), 0, y))
             inner == render(items[i].renderable, c1)
             res == [inner EXCEPT !.cx = cr_restore(cr_restore(inner.cx))]
         IN  IF res.result = "err" THEN res
             ELSE render_entries(items, i + 1,
                                 y + bounds(items[i].renderable)[2], res.cx)

\* Scale::render_internal: save, scale, self.inner.render(cr)?, restore.
render_scale(r, c) ==
    LET res == render(r.inner, cr_scale(cr_save(c), r.sx, r.sy))
    IN  IF res.result = "err" THEN res
        ELSE Painted(cr_restore(res.cx))

\* The mutant of render_clip: Clip does not restore.
render_clip_unrestored(r, c) ==
    render(r.inner,
           cr_clip(cr_translate(cr_save(c), 0 - r.x, 0 - r.y), r.x, r.y, r.w, r.h))

\* Clip::render_internal: save, translate, clip, inner.render, restore.
render_clip(r, c) ==
    LET res == render(r.inner,
                      cr_clip(cr_translate(cr_save(c), 0 - r.x, 0 - r.y),
                              r.x, r.y, r.w, r.h))
    IN  [res EXCEPT !.cx = cr_restore(res.cx)]

\* Renderable::render_internal of each type
render_internal(r, c) ==
    CASE r.kind = "Pad" -> Painted(c)
      [] r.kind \in {"Leaf", "Separator"} -> Painted(cr_draw(c, r))
      [] r.kind = "TextBox" ->
            Painted(cr_draw(cr_scale(cr_clip(c, 0, 0, r.w, r.h),
                                     FONT_SCALE, FONT_SCALE), r))
      [] r.kind = "TextBoxNoLayout" ->
            Failed(cr_scale(cr_clip(c, 0, 0, r.w, r.h), FONT_SCALE, FONT_SCALE), r)
      [] r.kind = "EventMarker" ->
            Painted(cr_draw(
                cr_clip(cr_translate(c, Px(TIME_COL_RIGHT), 0),
                        Px(4) - 100, 0 - Px(EVENT_MARKER_HEIGHT),
                        EVENT_MARKER_WIDTH + Px(1), Px(EVENT_MARKER_HEIGHT) * 2),
                r))
      [] r.kind = "Translate" -> render_to(r.inner, c, r.x, r.y)
      [] r.kind = "Clip" -> render_clip(r, c)
      [] r.kind = "Scale" -> render_scale(r, c)
      [] r.kind = "SwapXY" ->
            LET res == render_internal(r.inner, cr_swap(cr_save(c)))
            IN  [res EXCEPT !.cx = cr_restore(res.cx)]
      [] r.kind = "WithOperator" ->
            LET res == render_internal(r.inner,
                                       cr_set_operator(cr_save(c), r.operator))
            IN  [res EXCEPT !.cx = cr_restore(res.cx)]
      [] r.kind = "TestBorder" ->
            LET res == render(r.inner, cr_save(c))
            IN  IF res.result = "err" THEN res
                ELSE Painted(cr_draw(cr_restore(res.cx), r))
      [] r.kind \in {"Group", "Column"} -> render_items(r.items, 1, c)
      [] r.kind = "Entries" -> render_entries(r.items, 1, 0, c)

\* The most combinators nested around a leaf.
MaxDepth == 3

\* The measure of the text boxes painted.
TextMeasure == [w |-> 4, h |-> 2, min_baseline |-> 1]

\* The leaves painted: an image, a text box, and a text box pango fails on.
LeavesTried ==
    {Leaf(Px(2), Px(3)), TextBox(TextMeasure), TextBoxNoLayout(TextMeasure)}

\* The combinators put around a renderable t.
Wraps(t) ==
    { Translate(t, Px(3), Px(5)),
      Clip(t, Px(1), Px(1), Px(4), Px(4)),
      Scale(t, 2, 3),
      SwapXY(t),
      WithOperator(t, "Source"),
      TestBorder(t),
      RenderGroup_push(RenderGroup_push(RenderGroup_new, Leaf(Px(2), Px(3))), t),
      RenderGroup_push(RenderGroup_push(RenderGroup_new, t), Leaf(Px(2), Px(3))),
      RenderColumn_push(
          RenderColumn_push(RenderColumn_new, Leaf(Px(2), Px(3))).col, t).col,
      [kind |-> "Entries",
       items |-> << EventStackEntry(Leaf(Px(2), Px(3)), <<0, 0, 0, 0>>, FALSE),
                    EventStackEntry(t, <<0, 0, 0, 0>>, FALSE) >>] }

RECURSIVE Nesting(_)
\* The number of combinators around the leaf tried of a renderable built by
\* Wraps.
Nesting(t) ==
    CASE t.kind \in {"Leaf", "TextBox", "TextBoxNoLayout"} -> 0
      [] t.kind \in {"Group", "Column"} ->
            Max(Nesting(t.items[1]), Nesting(t.items[2]))
            + (IF t.kind = "Group" THEN 1 ELSE 0)
      [] t.kind = "Entries" -> 1 + Nesting(t.items[2].renderable)
      [] OTHER -> 1 + Nesting(t.inner)

\* Context::new(&surface): nothing saved, the identity, no clip, Over.
FreshContext ==
    [stack |-> <<>>,
     gs |-> [ctm |-> [xx |-> 1, yx |-> 0, xy |-> 0, yy |-> 1, x0 |-> 0, y0 |-> 0],
             clip |-> <<>>, operator |-> "Over"],
     drawn |-> <<>>]

\* The contexts painted on: a fresh one, and one in use (saved once,
\* translated and clipped).
ContextsTried ==
    {FreshContext,
     cr_clip(cr_translate(cr_save(FreshContext), Px(7), Px(9)), 0, 0, Px(8), Px(8))}

InitRender ==
    /\ tree \in LeavesTried
    /\ cx \in ContextsTried
    /\ rres = None
    /\ IdleQuant /\ IdleDS /\ IdleStack /\ IdlePad /\ IdleLayout /\ IdleFn

\* A combinator is put around the renderable.
Wrap ==
    /\ rres = None
    /\ Nesting(tree) < MaxDepth
    /\ tree' \in Wraps(tree)
    /\ UNCHANGED <<cx, rres, quantVars, dsVars, stackVars, padVars, layoutVars,
                   fnVars>>

\* tree.render(&mut cx)
Render ==
    /\ rres = None
    /\ LET res == render(tree, cx)
       IN  /\ cx' = res.cx
           /\ rres' = [kind |-> res.result, error |-> res.error,
                       via |-> "render", before |-> cx]
    /\ UNCHANGED <<tree, quantVars, dsVars, stackVars, padVars, layoutVars,
                   fnVars>>

\* tree.render_to(&mut cx, (1.0, 2.0))
RenderTo ==
    /\ rres = None
    /\ LET res == render_to(tree, cx, Px(1), Px(2))
       IN  /\ cx' = res.cx
           /\ rres' = [kind |-> res.result, error |-> res.error,
                       via |-> "render_to", before |-> cx]
    /\ UNCHANGED <<tree, quantVars, dsVars, stackVars, padVars, layoutVars,
                   fnVars>>

NextRender == Wrap \/ Render \/ RenderTo

SpecRender == InitRender /\ [][NextRender]_vars

\* The most children of a container painted.
MaxItems == 3

\* The measure of a second text box pango fails on.
OtherMeasure == [w |-> 5, h |-> 3, min_baseline |-> 2]

\* The children pushed: two images, a text box, and two text boxes pango
\* fails on.
KidsTried ==
    {Leaf(Px(2), Px(3)), Leaf(Px(3), Px(2)), TextBox(TextMeasure),
     TextBoxNoLayout(TextMeasure), TextBoxNoLayout(OtherMeasure)}

RECURSIVE GroupOf(_, _)
\* RenderGroup::new() and a push of each of the first n of kids, in order.
GroupOf(kids, n) ==
    IF n = 0 THEN RenderGroup_new
    ELSE RenderGroup_push(GroupOf(kids, n - 1), kids[n])

RECURSIVE ColumnOf(_, _)
\* RenderColumn::new() and a push of each of the first n of kids, in order.
ColumnOf(kids, n) ==
    IF n = 0 THEN RenderColumn_new
    ELSE RenderColumn_push(ColumnOf(kids, n - 1), kids[n]).col

\* The row-group list with an entry of each of kids, in order.
EntriesOf(kids) ==
    [kind |-> "Entries",
     items |-> [i \in 1..Len(kids) |->
                   EventStackEntry(kids[i], <<0, 0, 0, 0>>, FALSE)]]

\* The containers painted, of up to MaxItems children.
ContainersTried ==
    UNION { UNION { {GroupOf(kids, n), ColumnOf(kids, n), EntriesOf(kids)} :
                    kids \in [1..n -> KidsTried] } : n \in 0..MaxItems }

InitPaint ==
    /\ tree \in ContainersTried
    /\ cx \in ContextsTried
    /\ rres = None
    /\ IdleQuant /\ IdleDS /\ IdleStack /\ IdlePad /\ IdleLayout /\ IdleFn

NextPaint == Render \/ RenderTo

SpecPaint == InitPaint /\ [][NextPaint]_vars

(***************************************************************************)
(* Scale::bounds on every f64: src/src/render_prims.rs                     *)
(*                                                                         *)
(* An f64 is [kind |-> "fin", v |-> n], NaN, or an infinity with its sign. *)
(* The finite values tried are small whole numbers, whose products are     *)
(* exact and stay finite.                                                  *)
(***************************************************************************)

Fin(n) == [kind |-> "fin", v |-> n]
NaN == [kind |-> "nan"]
Inf(sign) == [kind |-> "inf", sign |-> sign]

\* f64::is_nan
is_nan(a) == a.kind = "nan"

\* The sign of an f64 that is not NaN: -1, 0 or 1.
Signum(a) ==
    IF a.kind = "inf" THEN a.sign
    ELSE IF a.v > 0 THEN 1 ELSE IF a.v < 0 THEN 0 - 1 ELSE 0

\* a * b (IEEE 754): NaN if either is, or for an infinity times zero.
F64Mul(a, b) ==
    IF is_nan(a) \/ is_nan(b) THEN NaN
    ELSE IF a.kind = "fin" /\ b.kind = "fin" THEN Fin(a.v * b.v)
    ELSE IF Signum(a) * Signum(b) = 0 THEN NaN
    ELSE Inf(Signum(a) * Signum(b))

\* a < b for f64 that are not NaN
F64Less(a, b) ==
    CASE a.kind = "fin" /\ b.kind = "fin" -> a.v < b.v
      [] a.kind = "inf" /\ b.kind = "inf" -> a.sign < b.sign
      [] a.kind = "inf" -> a.sign < 0
      [] OTHER -> b.sign > 0

\* f64::max(a, b): the other one if one is NaN.
F64Max(a, b) ==
    IF is_nan(a) THEN b
    ELSE IF is_nan(b) THEN a
    ELSE IF F64Less(a, b) THEN b ELSE a

\* Scale::bounds(&self) for self.inner.bounds() = inner and self.scale =
\* scale; the assertion failing is a panic.
Scale_bounds(inner, scale) ==
    IF ~(~is_nan(inner[1]) /\ ~is_nan(inner[2]))
    THEN [kind |-> "panic"]
    ELSE [kind |-> "ok",
          v |-> <<F64Max(Fin(0), F64Mul(inner[1], scale[1])),
                  F64Max(Fin(0), F64Mul(inner[2], scale[2]))>>]

\* The f64 tried as bounds and as factors.
F64Tried == {Fin(0 - 2), Fin(0), Fin(3), Inf(1), Inf(0 - 1), NaN}

InitScale ==
    /\ fcall = None
    /\ fres = None
    /\ IdleQuant /\ IdleDS /\ IdleStack /\ IdlePad /\ IdleLayout /\ IdleRender

\* Scale { inner, scale: (sx, sy) }.bounds() for an inner of bounds (w, h)
ScaleBounds(w, h, sx, sy) ==
    /\ fcall' = [kind |-> "Scale::bounds", inner |-> <<w, h>>, scale |-> <<sx, sy>>]
    /\ fres' = Scale_bounds(<<w, h>>, <<sx, sy>>)
    /\ UNCHANGED <<quantVars, dsVars, stackVars, padVars, layoutVars, renderVars>>

NextScale == \E w, h, sx, sy \in F64Tried : ScaleBounds(w, h, sx, sy)

SpecScale == InitScale /\ [][NextScale]_vars

(***************************************************************************)
(* End labels: format_end, src/src/main.rs                                 *)
(*                                                                         *)
(* A date is the number of days after 2020-05-30, the date of              *)
(* sample_data, a Saturday; a DateTime<Local> is [date, hour, minute].     *)
(* A character outside ASCII is written as its code point, <U+7FCC>.       *)
(***************************************************************************)

\* Date::succ
succ(date) == date + 1

\* Date::format("%m/%d"): the month and the day of the month, for the dates
\* up to 2020-06-30.
MonthOf(date) == IF date <= 1 THEN 5 ELSE 6
DayOf(date) == IF date <= 1 THEN 30 + date ELSE date - 1

\* Datelike::weekday, Monday being 0
weekday(date) == (5 + date) % 7

\* fn weekday_sigil(wd: chrono::Weekday) -> &'static str
weekday_sigil(wd) ==
    <<"<U+6708>", "<U+706B>", "<U+6C34>", "<U+6728>", "<U+91D1>", "<U+571F>",
      "<U+65E5>">>[wd + 1]

\* {:02} and %H, %M, %m, %d: two decimal digits
TwoDigits(n) ==
    LET digit == <<"0", "1", "2", "3", "4", "5", "6", "7", "8", "9">>
    IN  digit[(n \div 10) + 1] \o digit[(n % 10) + 1]

\* NaiveTime::format("%H:%M")
FormatHM(t) == TwoDigits(t.hour) \o ":" \o TwoDigits(t.minute)

Some(v) == [kind |-> "some", v |-> v]

\* The mutant of format_end: the late-night form ends before 03:00.
format_end_lt(event) ==
    IF event.end_time = None THEN None
    ELSE LET end_time == event.end_time.v
             start_date == event.start_time.date
             end_date == end_time.date
         IN  IF start_date = end_date
             THEN Some("~" \o FormatHM(end_time))
             ELSE IF succ(start_date) = end_date /\ end_time.hour < 3
             THEN Some("~" \o TwoDigits(end_time.hour + 24) \o ":"
                           \o TwoDigits(end_time.minute))
             ELSE IF succ(start_date) = end_date
             THEN Some("~<U+7FCC>" \o FormatHM(end_time))
             ELSE Some("~" \o TwoDigits(MonthOf(end_date)) \o "/"
                           \o TwoDigits(DayOf(end_date))
                           \o " (" \o weekday_sigil(weekday(end_date)) \o ") "
                           \o FormatHM(end_time))

\* The mutant of format_end: no form of its own for the next day.
format_end_generic(event) ==
    IF event.end_time = None THEN None
    ELSE LET end_time == event.end_time.v
             start_date == event.start_time.date
             end_date == end_time.date
         IN  IF start_date = end_date
             THEN Some("~" \o FormatHM(end_time))
             ELSE IF succ(start_date) = end_date /\ end_time.hour <= 3
             THEN Some("~" \o TwoDigits(end_time.hour + 24) \o ":"
                           \o TwoDigits(end_time.minute))
             ELSE Some("~" \o TwoDigits(MonthOf(end_date)) \o "/"
                           \o TwoDigits(DayOf(end_date))
                           \o " (" \o weekday_sigil(weekday(end_date)) \o ") "
                           \o FormatHM(end_time))

\* fn format_end(event: &CalendarEvent) -> Option<String>
format_end(event) ==
    IF event.end_time = None THEN None
    ELSE LET end_time == event.end_time.v
             start_date == event.start_time.date
             end_date == end_time.date
         IN  IF start_date = end_date
             THEN Some("~" \o FormatHM(end_time))
             ELSE IF succ(start_date) = end_date /\ end_time.hour <= 3
             THEN Some("~" \o TwoDigits(end_time.hour + 24) \o ":"
                           \o TwoDigits(end_time.minute))
             ELSE IF succ(start_date) = end_date
             THEN Some("~<U+7FCC>" \o FormatHM(end_time))
             ELSE Some("~" \o TwoDigits(MonthOf(end_date)) \o "/"
                           \o TwoDigits(DayOf(end_date))
                           \o " (" \o weekday_sigil(weekday(end_date)) \o ") "
                           \o FormatHM(end_time))

\* The last date tried.
MaxDate == 3

\* The hours and minutes tried for the end.
HoursTried == {0, 2, 3, 4, 9, 23}
MinutesTried == {0, 5, 59}

\* The events tried: they start at 21:00 of a date and have no end or end
\* at any date tried, before the start as well.
EndEventsTried ==
    LET starts == {[date |-> d, hour |-> 21, minute |-> 0] : d \in 0 .. MaxDate - 1}
        ends == {None} \cup
                {Some([date |-> d, hour |-> h, minute |-> m]) :
                    d \in 0 .. MaxDate, h \in HoursTried, m \in MinutesTried}
    IN  {[start_time |-> st, end_time |-> e] : st \in starts, e \in ends}

InitEnd ==
    /\ fcall = None
    /\ fres = None
    /\ IdleQuant /\ IdleDS /\ IdleStack /\ IdlePad /\ IdleLayout /\ IdleRender

\* format_end(&event)
FormatEnd(event) ==
    /\ fcall' = [kind |-> "format_end", event |-> event]
    /\ fres' = format_end(event)
    /\ UNCHANGED <<quantVars, dsVars, stackVars, padVars, layoutVars, renderVars>>

NextEnd == \E event \in EndEventsTried : FormatEnd(event)

SpecEnd == InitEnd /\ [][NextEnd]_vars

(***************************************************************************)
(* The feed: fetch_calendar, src/src/calendar.rs                           *)
(*                                                                         *)
(* A feed event is what ParsedEntry::try_from gives for it: [kind |->      *)
(* "bad"] when it fails (no DTSTART, UID or SUMMARY), otherwise [kind |->  *)
(* "entry", dtstart, dtend, summary]; times are [date, hour, minute] in    *)
(* the local zone, dtend is None or Some(time), and a text is the sequence *)
(* of its characters. A CalendarEvent is [start_time, end_time, body].     *)
(***************************************************************************)

RECURSIVE unescape(_)
\* fn unescape(s: &mut String): the text left in s
unescape(s) ==
    IF s = <<>> THEN <<>>
    ELSE IF Head(s) = "\\"
    THEN IF Len(s) = 1 THEN <<>>
         ELSE IF s[2] = "n" THEN unescape(SubSeq(s, 3, Len(s)))
         ELSE <<s[2]>> \o unescape(SubSeq(s, 3, Len(s)))
    ELSE <<Head(s)>> \o unescape(Tail(s))

\* The minutes from the start of date 0 to a time: the order of DateTime.
Minutes(t) == (t.date * 24 + t.hour) * 60 + t.minute

\* The order of Option<DateTime>: None first.
EndKey(e) == IF e = None THEN 0 - 1 ELSE Minutes(e.v)

\* The code of a character of the texts tried.
CharCode(c) ==
    CASE c = "," -> 44 [] c = "\\" -> 92 [] c = "a" -> 97 [] c = "n" -> 110

RECURSIVE StrLess(_, _)
\* The order of &str: by bytes, a prefix first.
StrLess(s, t) ==
    IF t = <<>> THEN FALSE
    ELSE IF s = <<>> THEN TRUE
    ELSE IF Head(s) # Head(t) THEN CharCode(Head(s)) < CharCode(Head(t))
    ELSE StrLess(Tail(s), Tail(t))

\* The order of the key (ev.dtstart, ev.dtend, ev.summary)
KeyLess(a, b) ==
    IF Minutes(a.dtstart) # Minutes(b.dtstart)
    THEN Minutes(a.dtstart) < Minutes(b.dtstart)
    ELSE IF EndKey(a.dtend) # EndKey(b.dtend)
    THEN EndKey(a.dtend) < EndKey(b.dtend)
    ELSE StrLess(a.summary, b.summary)

RECURSIVE SortByKey(_)
\* events.sort_by_key(..): a stable sort, by inserting each event after the
\* ones before it that are not greater.
SortByKey(evs) ==
    IF evs = <<>> THEN <<>>
    ELSE LET front == SortByKey(SubSeq(evs, 1, Len(evs) - 1))
             e == evs[Len(evs)]
             keep == Cardinality({i \in 1 .. Len(front) : ~KeyLess(e, front[i])})
         IN  SubSeq(front, 1, keep) \o <<e>> \o SubSeq(front, keep + 1, Len(front))

\* fetch_calendar: the events kept by events.retain(..) at the time now
Retained(ev, now) ==
    LET start_date == IF now.hour < 3 THEN now.date - 1 ELSE now.date
        one_week_later == [date |-> now.date + 7, hour |-> 0, minute |-> 0]
    IN  \/ /\ ev.dtstart.date >= start_date
           /\ Minutes(ev.dtstart) < Minutes(one_week_later)
        \/ /\ ev.dtend # None
           /\ Minutes(ev.dtstart) <= Minutes(now)
           /\ Minutes(ev.dtend.v) >= Minutes(now)

\* fetch_calendar: Some(&event) == prior_event, the event still having the
\* summary as its body and the events pushed before having theirs unescaped.
SameAsPrior(event, events) ==
    events # <<>> /\ event = events[Len(events)]

RECURSIVE DayEvents(_, _, _)
\* fetch_calendar: the loop over a daygroup from its i-th event on, events
\* being the CalendarEvents pushed so far
DayEvents(daygroup, i, events) ==
    IF i > Len(daygroup) THEN events
    ELSE LET event == [start_time |-> daygroup[i].dtstart,
                       end_time |-> daygroup[i].dtend,
                       body |-> daygroup[i].summary]
         IN  IF SameAsPrior(event, events)
             THEN DayEvents(daygroup, i + 1, events)
             ELSE DayEvents(daygroup, i + 1,
                            Append(events, [event EXCEPT !.body = unescape(@)]))

RECURSIVE GroupDays(_, _)
\* fetch_calendar: events.iter().group_by(|ev| ev.dtstart.date()), and a
\* CalendarDay for each group, from the i-th event on
GroupDays(evs, i) ==
    IF i > Len(evs) THEN <<>>
    ELSE LET date == evs[i].dtstart.date
             others == {k \in i .. Len(evs) : evs[k].dtstart.date # date}
             last == IF others = {} THEN Len(evs)
                     ELSE (CHOOSE k \in others : \A j \in others : k <= j) - 1
             day == [date |-> date,
                     events |-> DayEvents(SubSeq(evs, i, last), 1, << >>)]
         IN  <<day>> \o GroupDays(evs, last + 1)

RECURSIVE Retain(_, _)
\* events.retain(..): the events kept, in order
Retain(evs, now) ==
    IF evs = <<>> THEN <<>>
    ELSE (IF Retained(Head(evs), now) THEN <<Head(evs)>> ELSE <<>>)
         \o Retain(Tail(evs), now)

RECURSIVE ParseEntries_ge(_, _, _, _)
\* The mutant of ParseEntries: the run is given up at the tenth failure.
ParseEntries_ge(raw, i, events, parse_errors) ==
    IF i > Len(raw) THEN [kind |-> "ok", events |-> events]
    ELSE IF raw[i].kind = "entry"
    THEN ParseEntries_ge(raw, i + 1, Append(events, raw[i]), parse_errors)
    ELSE IF parse_errors + 1 >= 10
    THEN [kind |-> "err", what |-> "Too many parse errors", at |-> i,
          parse_errors |-> parse_errors + 1]
    ELSE ParseEntries_ge(raw, i + 1, events, parse_errors + 1)

RECURSIVE ParseEntries(_, _, _, _)
\* fetch_calendar: the loop over raw_data.events from the i-th entry on, with
\* the events pushed and the failures counted so far; the error names the
\* entry it was raised at.
ParseEntries(raw, i, events, parse_errors) ==
    IF i > Len(raw) THEN [kind |-> "ok", events |-> events]
    ELSE IF raw[i].kind = "entry"
    THEN ParseEntries(raw, i + 1, Append(events, raw[i]), parse_errors)
    ELSE IF parse_errors + 1 > 10
    THEN [kind |-> "err", what |-> "Too many parse errors", at |-> i,
          parse_errors |-> parse_errors + 1]
    ELSE ParseEntries(raw, i + 1, events, parse_errors + 1)

\* pub(crate) fn fetch_calendar() -> Result<Vec<CalendarDay>>, for the
\* events get_calendar_data gives and Local::now()
fetch_calendar(raw, now) ==
    LET parsed == ParseEntries(raw, 1, <<>>, 0)
    IN  IF parsed.kind = "err" THEN parsed
        ELSE [kind |-> "ok",
              v |-> GroupDays(SortByKey(Retain(parsed.events, now)), 1)]

\* The most events of the feed.
MaxFeed == 3

\* The summaries tried: plain, with an escaped comma, with an escaped line
\* break.
SummariesTried == {<<"a">>, <<"a", "\\", ",", "a">>, <<"a", "\\", "n">>}

\* The feed events tried: one that does not parse; events of the first and
\* of the second date, without and with an end; and one of long ago.
FeedEventsTried ==
    {[kind |-> "bad"]}
    \cup {[kind |-> "entry", dtstart |-> [date |-> 1, hour |-> 21, minute |-> 0],
           dtend |-> None, summary |-> b] : b \in SummariesTried}
    \cup {[kind |-> "entry", dtstart |-> [date |-> 2, hour |-> 9, minute |-> 30],
           dtend |-> Some([date |-> 2, hour |-> 10, minute |-> 0]),
           summary |-> <<"a", "\\", ",", "a">>],
          [kind |-> "entry", dtstart |-> [date |-> 0, hour |-> 9, minute |-> 0],
           dtend |-> Some([date |-> 0, hour |-> 10, minute |-> 0]),
           summary |-> <<"a">>]}

\* Local::now() in the runs tried.
NowTried == [date |-> 1, hour |-> 12, minute |-> 0]

InitFetch ==
    /\ fcall = None
    /\ fres = None
    /\ IdleQuant /\ IdleDS /\ IdleStack /\ IdlePad /\ IdleLayout /\ IdleRender

\* The feed grows by an event before it is fetched.
Publish(ev) ==
    /\ fres = None
    /\ Len(IF fcall = None THEN <<>> ELSE fcall.feed) < MaxFeed
    /\ fcall' = [kind |-> "fetch_calendar",
                 feed |-> Append(IF fcall = None THEN <<>> ELSE fcall.feed, ev),
                 now |-> NowTried]
    /\ UNCHANGED <<fres, quantVars, dsVars, stackVars, padVars, layoutVars,
                   renderVars>>

\* fetch_calendar()
FetchCalendar ==
    /\ fcall # None
    /\ fres = None
    /\ fres' = fetch_calendar(fcall.feed, fcall.now)
    /\ UNCHANGED <<fcall, quantVars, dsVars, stackVars, padVars, layoutVars,
                   renderVars>>

NextFetch == (\E ev \in FeedEventsTried : Publish(ev)) \/ FetchCalendar

SpecFetch == InitFetch /\ [][NextFetch]_vars

\* The most entries of a long feed.
MaxEntries == 12

\* An entry that parses and is retained at NowTried.
GoodEntry ==
    [kind |-> "entry", dtstart |-> [date |-> 1, hour |-> 21, minute |-> 0],
     dtend |-> None, summary |-> <<"a">>]

RECURSIVE FeedsOfLength(_)
\* The feeds of n entries each of which is GoodEntry or fails to parse.
FeedsOfLength(n) ==
    IF n = 0 THEN {<<>>}
    ELSE {Append(f, e) : f \in FeedsOfLength(n - 1),
                         e \in {GoodEntry, [kind |-> "bad"]}}

InitParse ==
    /\ fcall = None
    /\ fres = None
    /\ IdleQuant /\ IdleDS /\ IdleStack /\ IdlePad /\ IdleLayout /\ IdleRender

\* fetch_calendar() on a long feed; one call is followed to its result.
FetchLongFeed(feed) ==
    /\ fcall = None
    /\ fcall' = [kind |-> "fetch_calendar", feed |-> feed, now |-> NowTried]
    /\ fres' = fetch_calendar(feed, NowTried)
    /\ UNCHANGED <<quantVars, dsVars, stackVars, padVars, layoutVars, renderVars>>

NextParse ==
    \E n \in 0 .. MaxEntries : \E feed \in FeedsOfLength(n) : FetchLongFeed(feed)

SpecParse == InitParse /\ [][NextParse]_vars

(***************************************************************************)
(* The channel-splitting encoder: compute_layout and squash_surface,       *)
(* src/src/main.rs                                                         *)
(*                                                                         *)
(* An image surface is [width, height, stride, data], data being its bytes *)
(* from index 0 on, row after row, stride bytes a row.                     *)
(***************************************************************************)

\* i32 % i32 for a positive divisor: the remainder has the sign of the
\* dividend.
RustRem(a, b) == IF a >= 0 THEN a % b ELSE 0 - ((0 - a) % b)

\* cairo_format_stride_for_width: rows start at multiples of 4 bytes.
StrideA8(w) == ((w + 3) \div 4) * 4
StrideRgb24(w) == 4 * w

\* cairo::ImageSurface::create: a surface of zero bytes
ImageSurface_create(format, w, h) ==
    LET stride == IF format = "A8" THEN StrideA8(w) ELSE StrideRgb24(w)
    IN  [width |-> w, height |-> h, stride |-> stride,
         data |-> [i \in 0 .. stride * h - 1 |-> 0]]

\* The mutant of squash_surface: green and red are taken from the other's
\* third.
squash_surface_swapped(alpha_surf) ==
    LET tex_height_div == alpha_surf.height \div 3
        input_stride == alpha_surf.stride
        w == alpha_surf.width
        input_chunk == input_stride * tex_height_div
        col_surf == ImageSurface_create("Rgb24", w, tex_height_div)
        output_stride == col_surf.stride
        in_data == alpha_surf.data
        Out(i) ==
            LET y == i \div output_stride
                x == (i % output_stride) \div 4
                c == i % 4
            IN  IF y < tex_height_div /\ x < w
                THEN IF c = 3 THEN 255
                     ELSE in_data[y * input_stride + x
                                  + ((3 - c) % 3) * input_chunk]
                ELSE col_surf.data[i]
    IN  [col_surf EXCEPT !.data = [i \in DOMAIN col_surf.data |-> Out(i)]]

\* fn squash_surface(surf: cairo::ImageSurface) -> Result<cairo::ImageSurface>:
\* the bytes px[0..3] of the pixel x of the row y are the bytes 4x .. 4x+3 of
\* the row.
squash_surface(alpha_surf) ==
    LET tex_height_div == alpha_surf.height \div 3
        input_stride == alpha_surf.stride
        w == alpha_surf.width
        input_chunk == input_stride * tex_height_div
        col_surf == ImageSurface_create("Rgb24", w, tex_height_div)
        output_stride == col_surf.stride
        in_data == alpha_surf.data
        Out(i) ==
            LET y == i \div output_stride
                x == (i % output_stride) \div 4
                c == i % 4
            IN  IF y < tex_height_div /\ x < w
                THEN IF c = 3 THEN 255
                     ELSE in_data[y * input_stride + x + c * input_chunk]
                ELSE col_surf.data[i]
    IN  [col_surf EXCEPT !.data = [i \in DOMAIN col_surf.data |-> Out(i)]]

\* compute_layout: the height of the alpha surface for a layout of the given
\* height and the row budget max_height (an i32)
TexHeight(layout_height, max_height) ==
    LET tex_height == Ceil(layout_height)
        rounded == IF RustRem(tex_height, 3) < 0
                   THEN tex_height + (3 - RustRem(tex_height, 3))
                   ELSE tex_height
    IN  Min(rounded, max_height * 3)

\* fn compute_layout(days, setup, vdata, max_height) -> Result<RcRenderable>:
\* the table after the call, the size of the alpha surface the layout is
\* painted on, and the renderable returned, the surface squash_surface makes
\* of it. The pixels are left to squash_surface.
compute_layout(dys, vd, max_height_f64) ==
    LET max_height == Floor(max_height_f64)
        gen == generate_variable_layout(dys, vd, max_height * 3)
        tex_height == TexHeight(height(gen.result.value), max_height)
    IN  [vdata |-> gen.vdata,
         alpha_surf |-> [width |-> VIEWPORT_WIDTH, height |-> tex_height],
         result |-> [kind |-> "ok",
                     value |-> Leaf(Px(VIEWPORT_WIDTH), Px(tex_height \div 3))]]

\* The largest width and height of the surfaces squashed.
MaxSurfW == 5
MaxSurfH == 7

\* An alpha surface of w by h whose pixels all differ: the pixel x of the row
\* y is 16 y + x + 1.
AlphaSurface(w, h) ==
    LET blank == ImageSurface_create("A8", w, h)
    IN  [blank EXCEPT !.data =
            [i \in DOMAIN blank.data |->
                IF i % blank.stride < w
                THEN 16 * (i \div blank.stride) + (i % blank.stride) + 1
                ELSE 0]]

\* The row budgets (max_height) tried, in thousandths of a pixel: none, ones
\* below and one above what the days tried need.
MaxHeightsTried == {0, Px(40), 51500, Px(60), Px(400)}

InitSquash ==
    /\ fcall = None
    /\ fres = None
    /\ IdleQuant /\ IdleDS /\ IdleStack /\ IdlePad /\ IdleLayout /\ IdleRender

\* compute_layout(&days, &setup, &mut data.vdata, max_height) on the empty
\* table; one call is followed to its result.
ComputeLayout(dys, max_height) ==
    /\ fcall = None
    /\ fcall' = [kind |-> "compute_layout", days |-> dys, max_height |-> max_height]
    /\ fres' = compute_layout(dys, <<>>, max_height)
    /\ UNCHANGED <<quantVars, dsVars, stackVars, padVars, layoutVars, renderVars>>

\* squash_surface(alpha_surf)
SquashSurface(w, h) ==
    /\ fcall = None
    /\ fcall' = [kind |-> "squash_surface", surf |-> AlphaSurface(w, h)]
    /\ fres' = squash_surface(AlphaSurface(w, h))
    /\ UNCHANGED <<quantVars, dsVars, stackVars, padVars, layoutVars, renderVars>>

NextSquash ==
    \/ \E dys \in DayListsTried, m \in MaxHeightsTried : ComputeLayout(dys, m)
    \/ \E w \in 1 .. MaxSurfW, h \in 0 .. MaxSurfH : SquashSurface(w, h)

SpecSquash == InitSquash /\ [][NextSquash]_vars

(***************************************************************************)
(* The full layout: setup_environment, template_column, layout_template    *)
(* and compute_full_layout, src/src/main.rs                                *)
(*                                                                         *)
(* Lengths are thousandths of a pixel. The images are leaves of their      *)
(* scaled size; the text of the footer is a leaf of the size measured.     *)
(***************************************************************************)

TEXTURE_HEIGHT == 4096
VARIABLE_TEMPLATE_TOP == 590
\* const DAY_HEADER_CORNER_SIZE: f64 = 8.0 (layout_template)
DAY_HEADER_CORNER_SIZE == 8

\* `x as u32` for a finite f64 x: the fraction is dropped, a negative value
\* gives 0 and a value past u32::MAX gives u32::MAX.
AsU32(len) ==
    IF len < 0 THEN 0
    ELSE IF Floor(len) > U32Max THEN U32Max
    ELSE Floor(len)

\* a - b on u32: a debug build panics when b > a, a release build keeps the
\* low 32 bits, 2^32 - (b - a), written on the stand-in for u32::MAX.
SubU32(a, b, build) ==
    IF a >= b THEN [kind |-> "ok", value |-> a - b]
    ELSE IF build = "debug" THEN [kind |-> "panic"]
    ELSE [kind |-> "ok", value |-> (U32Max - (b - a)) + 1]

\* pad_vertical on lengths in thousandths: the slices stretched are one pixel
\* thick, and pad_above and pad_below are whole pixels.
pad_vertical_f64(r, pad_above, pad_below) ==
    LET rw == width(r)
        rh == height(r)
        Part(clip_height, clip_start, scale, offset) ==
            IF scale > 0
            THEN <<Translate(Scale(Clip(r, 0, clip_start, rw, clip_height),
                                   1, scale), 0, offset)>>
            ELSE <<>>
    IN  [kind |-> "Group",
         items |-> Part(Px(1), 0, pad_above, 0)
                   \o Part(rh, 0, 1, Px(pad_above))
                   \o Part(Px(1), rh - Px(1), pad_below, Px(pad_above) + rh)]

\* pad_sides on lengths in thousandths
pad_sides_f64(r, pad_left, pad_right) ==
    LET rw == width(r)
        rh == height(r)
        Part(clip_w, clip_start, scale, offset) ==
            IF scale > 0
            THEN <<Translate(Scale(Clip(r, clip_start, 0, clip_w, rh),
                                   scale, 1), offset, 0)>>
            ELSE <<>>
    IN  [kind |-> "Group",
         items |-> Part(Px(1), 0, pad_left, 0)
                   \o Part(rw, 0, 1, Px(pad_left))
                   \o Part(Px(1), rw - Px(1), pad_right, Px(pad_left) + rw)]

\* len * (1024.0 / template_width) for a length of len whole pixels, in
\* thousandths; exact for the widths tried.
ScaleBy(len, template_width) ==
    ((len * 1024) \div template_width) * 1000
    + (((len * 1024) % template_width) * 1000) \div template_width

\* fn setup_environment(opts): both images scaled by 1024 / the template's
\* width. An image is its <<width, height>> in pixels.
setup_environment(template_image, header_image) ==
    [template |-> Leaf(ScaleBy(template_image[1], template_image[1]),
                       ScaleBy(template_image[2], template_image[1])),
     day_header_template |-> Leaf(ScaleBy(header_image[1], template_image[1]),
                                  ScaleBy(header_image[2], template_image[1]))]

\* fn template_column(setup, col) -> (RcRenderable, f64, f64)
template_column(setup, c) ==
    LET clip == Clip(setup.template, Px(c * VARIABLE_OUTER_RIGHT), Px(VARIABLE_TOP),
                     Px(IF c = 0 THEN LEFT_BORDER ELSE RIGHT_BORDER),
                     Px(VARIABLE_BOTTOM - VARIABLE_TOP))
        column == pad_sides_f64(
                      pad_vertical_f64(SwapXY(clip), SECTION_PAD, SECTION_PAD),
                      0, SECTION_PAD)
    IN  <<column, width(clip), height(clip)>>

\* The size pango measures for the text of info_text, in pixels.
InfoMeasure == [w |-> 300, h |-> 15, min_baseline |-> 12]

\* fn info_text(setup, bounds) -> Result<RcRenderable>, the text laid out
info_text(setup, bnds) ==
    LET text == TextBox(InfoMeasure)
        baseline == height(text)
    IN  Translate(text, 0, bnds[2] - baseline)

\* struct Rectangle
Rectangle(x, y, w, h) == [x |-> x, y |-> y, width |-> w, height |-> h]

\* fn layout_template(setup, data) -> Result<(RcRenderable,
\* TemplateElementCoordinates)>: the column, the coordinates and the record
\* after the call, or the panic of a u32 subtraction.
layout_template(setup, data, build) ==
    LET template == setup.template
        sides_built ==
            LET c0 == template_column(setup, 0)
                side1 == RenderColumn_push(RenderColumn_new, c0[1]).col
                c1 == template_column(setup, 1)
            IN  [left_border |-> Rectangle(0, Px(SECTION_PAD), c0[2], c0[3]),
                 right_border |-> Rectangle(0, height(side1) + Px(SECTION_PAD),
                                            c1[2], c1[3]),
                 side_layout |-> RenderColumn_push(side1, c1[1]).col]
        w == width(setup.day_header_template)
        h == height(setup.day_header_template)
        day_header_true_size == <<w, h>>
        corner(k) ==
            Translate(Clip(setup.day_header_template,
                           (w - Px(DAY_HEADER_CORNER_SIZE)) * k, 0,
                           Px(DAY_HEADER_CORNER_SIZE), h),
                      Px(DAY_HEADER_CORNER_SIZE) * k, 0)
        day_header_built ==
            pad_vertical_f64(
                pad_sides_f64([kind |-> "Group", items |-> <<corner(0), corner(1)>>],
                              SECTION_PAD, SECTION_PAD),
                0, SECTION_PAD)
        init_seg_built(side_layout, day_header) ==
            LET dh_w == width(day_header)
                dh_h == height(day_header)
                day_header_alpha ==
                    [kind |-> "Group",
                     items |-> <<Leaf(dh_w, dh_h),
                                 WithOperator(day_header, "DestIn")>>]
                side_width == width(side_layout)
            IN  [kind |-> "Group",
                 items |-> <<side_layout,
                             Translate(day_header, side_width, 0),
                             Translate(day_header_alpha, side_width + dh_w, 0)>>]
        header_renderer ==
            [kind |-> "Group",
             items |-> <<Clip(template, 0, 0, width(template),
                              Px(DAY_HEADER_CORNER_SIZE + VARIABLE_TOP)),
                         Translate(Clip(setup.day_header_template, 0, 0,
                                        width(setup.day_header_template),
                                        Px(DAY_HEADER_CORNER_SIZE)),
                                   Px(LEFT_BORDER), Px(VARIABLE_TOP))>>]
        footer_height == height(template) - Px(VARIABLE_BOTTOM)
        footer_clip == [kind |-> "Group",
                        items |-> <<Clip(template, 0, Px(VARIABLE_BOTTOM),
                                         width(template), footer_height)>>]
        footer_tex == RenderGroup_push(footer_clip,
                                       info_text(setup, bounds(footer_clip)))
        bg_sample_tex ==
            Clip(template, 0, Px(VARIABLE_TEMPLATE_TOP), width(template),
                 Px(data.bg_sample_h))
        returned(sides, init_seg, column1, column2, column3, column4) ==
            LET side_width == width(sides.side_layout)
                day_header_tex ==
                    Rectangle(Px(SECTION_PAD) + side_width, 0,
                              Px(DAY_HEADER_CORNER_SIZE) * 2, h)
                tex_x == AsU32(side_width + Px(SECTION_PAD))
                data1 ==
                    [data EXCEPT
                       !.day_header_side_width = AsU32(Px(DAY_HEADER_CORNER_SIZE)),
                       !.day_header_tex_x = tex_x,
                       !.day_header_tex_alpha_x =
                           tex_x + AsU32(Px(DAY_HEADER_CORNER_SIZE)) * 2
                           + AsU32(Px(SECTION_PAD) * 2),
                       !.day_header_tex_y = 0,
                       !.day_header_true_width =
                           AsU32(width(setup.day_header_template)),
                       !.day_header_height =
                           AsU32(height(setup.day_header_template))]
                init_w == AsU32(Px(Ceil(width(init_seg))))
                init_h == AsU32(Px(Ceil(height(init_seg))))
                ds_w == SubU32(VIEWPORT_WIDTH, init_w, build)
                ds_h == SubU32(VIEWPORT_HEIGHT, init_h, build)
                header == Rectangle(0, height(column1) + Px(SECTION_PAD),
                                    width(template), Px(VARIABLE_TOP))
                footer == Rectangle(0, height(column2) + Px(SECTION_PAD),
                                    width(template), footer_height)
            IN  IF ds_w.kind = "panic" \/ ds_h.kind = "panic"
                THEN [kind |-> "panic"]
                ELSE [kind |-> "ok",
                      column |-> column4,
                      coords |-> [left_border |-> sides.left_border,
                                  right_border |-> sides.right_border,
                                  day_header_tex |-> day_header_tex,
                                  day_header_true_size |-> day_header_true_size,
                                  header |-> header,
                                  footer |-> footer],
                      data |-> [data1 EXCEPT
                                  !.datastream_width = ds_w.value,
                                  !.datastream_height = ds_h.value,
                                  !.header_tex_y = AsU32(header.y),
                                  !.footer_tex_y = AsU32(footer.y),
                                  !.bg_sample_y =
                                      AsU32(height(column3) + Px(SECTION_PAD))]]
    IN  Once(sides_built, LAMBDA sides :
        Once(day_header_built, LAMBDA day_header :
        Once(init_seg_built(sides.side_layout, day_header), LAMBDA init_seg :
        Once(RenderColumn_push(RenderColumn_new, init_seg).col, LAMBDA column1 :
        Once(RenderColumn_push(column1,
                 pad_vertical_f64(header_renderer, SECTION_PAD, SECTION_PAD)).col,
             LAMBDA column2 :
        Once(RenderColumn_push(column2,
                 pad_vertical_f64(footer_tex, SECTION_PAD, SECTION_PAD)).col,
             LAMBDA column3 :
        Once(RenderColumn_push(column3,
                 pad_vertical_f64(bg_sample_tex, SECTION_PAD, SECTION_PAD)).col,
             LAMBDA column4 :
        returned(sides, init_seg, column1, column2, column3, column4))))))))

\* compute_layout for any max_height: with a negative one, `max_height as
\* usize * 3` overflows, which a debug build answers with a panic; a release
\* build goes on, and ImageSurface::create refuses the negative height
\* min(tex_height, max_height * 3).
compute_layout_build(dys, vd, max_height_f64, build) ==
    IF Floor(max_height_f64) < 0
    THEN IF build = "debug"
         THEN [vdata |-> vd, result |-> [kind |-> "panic"]]
         ELSE [vdata |-> generate_variable_layout(dys, vd, U32Max).vdata,
               result |-> [kind |-> "err", error |-> "cairo: invalid size"]]
    ELSE compute_layout(dys, vd, max_height_f64)

\* The mutant of AssignScroll: scroll_tex_y is not assigned.
AssignScroll_height(data, event_h, base_offset) ==
    [data EXCEPT !.scroll_height = AsU32(Px(Ceil(event_h)))]

\* data.scroll_height = event_h.ceil() as u32;
\* data.scroll_tex_y = (base_offset + SECTION_PAD).ceil() as u32
AssignScroll(data, event_h, base_offset) ==
    [data EXCEPT !.scroll_height = AsU32(Px(Ceil(event_h))),
                 !.scroll_tex_y = AsU32(Px(Ceil(base_offset + Px(SECTION_PAD))))]

\* compute_full_layout from `let template = ...` on, data being the record
\* `let mut data` was initialised with.
compute_full_layout_from(setup, dys, build, data) ==
    LET finished(lt, layout1, ci) ==
            LET base_offset == height(layout1)
                event_info == ci.result.value
                event_w == width(event_info)
                event_h == height(event_info)
                placed ==
                    pad_sides_f64(
                        pad_vertical_f64(
                            Clip(event_info, Px(LEFT_BORDER), 0,
                                 event_w - Px(LEFT_BORDER + RIGHT_BORDER), event_h),
                            SECTION_PAD, 0),
                        0, SECTION_PAD)
            IN  IF ci.result.kind # "ok" THEN ci.result
                ELSE [kind |-> "ok",
                      layout |-> Once(placed, LAMBDA item :
                                     RenderColumn_push(layout1, item).col),
                      data |-> AssignScroll([lt.data EXCEPT !.vdata = ci.vdata],
                                            event_h, base_offset)]
    IN  Once(layout_template(setup, data, build), LAMBDA lt :
            IF lt.kind # "ok" THEN lt
            ELSE Once(RenderColumn_push(RenderColumn_new, lt.column).col,
                      LAMBDA layout1 :
                 Once(compute_layout_build(dys, lt.data.vdata,
                          Px(TEXTURE_HEIGHT) - height(layout1) - Px(SECTION_PAD),
                          build),
                      LAMBDA ci : finished(lt, layout1, ci))))

\* fn compute_full_layout(setup, days) -> Result<(RcRenderable,
\* DatastreamElements)>: let mut data = config_datastream_info(); ...
compute_full_layout(setup, dys, build) ==
    compute_full_layout_from(setup, dys, build, config_datastream_info)

\* The template images tried, <<width, height>> in pixels: one of the
\* viewport's size, one twice as wide whose scaled height is 1447.5, one that
\* ends above VARIABLE_BOTTOM, and one so tall that no row is left for the
\* events.
TemplatesTried == {<<1024, 1447>>, <<2048, 2895>>, <<1024, 1200>>, <<1024, 4500>>}

\* The day-header images tried: a usual one, one of odd size, one taller than
\* the side columns, one that with its padding is one row taller than the
\* viewport, and one taller than the viewport.
HeadersTried ==
    {<<930, 96>>, <<1201, 101>>, <<930, 400>>, <<930, 1416>>, <<930, 1500>>}

\* The lists of days tried: none, the sample data, and one or two fetched
\* days of at most one event.
FullDaysTried ==
    {<<>>, sample_data}
    \cup {<<d>> : d \in FetchedDays(1)}
    \cup {<<d, e>> : d \in FetchedDays(1), e \in FetchedDays(1)}

InitFull ==
    /\ fcall = None
    /\ fres = None
    /\ IdleQuant /\ IdleDS /\ IdleStack /\ IdlePad /\ IdleLayout /\ IdleRender

\* compute_full_layout(&setup, &days) after setup_environment, in either
\* build; one call is followed to its result.
ComputeFullLayout(template_image, header_image, dys, build) ==
    /\ fcall = None
    /\ fcall' = [kind |-> "compute_full_layout", template |-> template_image,
                 header |-> header_image, days |-> dys, build |-> build]
    /\ fres' = compute_full_layout(
                   setup_environment(template_image, header_image), dys, build)
    /\ UNCHANGED <<quantVars, dsVars, stackVars, padVars, layoutVars, renderVars>>

NextFull ==
    \E t \in TemplatesTried, h \in HeadersTried, dys \in FullDaysTried,
       build \in Builds : ComputeFullLayout(t, h, dys, build)

SpecFull == InitFull /\ [][NextFull]_vars

(***************************************************************************)
(* Claims                                                                  *)
(***************************************************************************)

\* The quantization the specification states: 4c up to 96, 4c + 2 above.
QuantOf(c) == IF 4 * c <= 96 THEN 4 * c ELSE 4 * c + 2

\* The pixel the specification states for the value v.
PixelOf(v) ==
    [r |-> QuantOf((v \div 4096) % 64),
     g |-> QuantOf((v \div 64) % 64),
     b |-> QuantOf(v % 64),
     a |-> 255]

\* C4: for every value v below 2^18, ByteColor::from_value(v) is the pixel
\* with R, G, B the quantized bits 12-17, 6-11, 0-5 of v and A = 0xFF, where
\* 24 quantizes to 96 and 25 to 102, and the test-pattern binary's
\* from_value gives the same pixel, as the bytes [b, g, r, a].
C4_FromValuePixel ==
    qarg < ValueLimit =>
        /\ qres # None =>
              /\ qres.kind = "ok"
              /\ qres.color = PixelOf(qarg)
        /\ tpres # None =>
              /\ tpres.kind = "ok"
              /\ tpres.bytes = <<PixelOf(qarg).b, PixelOf(qarg).g,
                                 PixelOf(qarg).r, PixelOf(qarg).a>>
        /\ (qres # None /\ tpres # None) =>
              tpres.bytes = <<qres.color.b, qres.color.g,
                              qres.color.r, qres.color.a>>

\* C4 witness: both binaries have quantized the value whose channel groups
\* are 25, 24 and 63, giving the pixel (102, 96, 254).
C4_Witness ==
    /\ qarg = 25 * 4096 + 24 * 64 + 63
    /\ qres.kind = "ok" /\ tpres.kind = "ok"
    /\ qres.color = [r |-> 102, g |-> 96, b |-> 254, a |-> 255]

\* C5: on the 6-bit inputs convert_part succeeds, neither the shift nor the
\* correction overflows 8 bits (the result is 4v or 4v + 2, at most 255), and
\* no smaller input has a larger result.
C5_ConvertPartMonotonic ==
    (qarg <= 63 /\ cpres # None) =>
        /\ cpres.kind = "ok"
        /\ cpres.val <= 255
        /\ cpres.val \in {4 * qarg, 4 * qarg + 2}
        /\ \A w \in 0 .. qarg :
              /\ convert_part(w).kind = "ok"
              /\ convert_part(w).val <= cpres.val

\* C5 witness: convert_part has been applied to the largest 6-bit input.
C5_Witness == qarg = 63 /\ cpres.kind = "ok" /\ cpres.val = 254

\* Whether n elements are more than a datastream of the record's declared
\* width and height holds (both below 2^18 once encode has succeeded).
TooMany(self, n) ==
    \/ self.datastream_width = 0
    \/ self.datastream_height = 0
    \/ /\ self.datastream_width <= n
       /\ self.datastream_height <= n
       /\ self.datastream_width * self.datastream_height < n

\* The error write returns when the data does not fit.
CapacityError == [kind |-> "err", what |-> "Not enough space for datastream"]

\* The pixels of the image that differ from what they were before write.
Modified == {p \in DOMAIN surf.px : surf.px[p] # InitialSurf.px[p]}

\* C1: when the encoded sequence has more elements than datastream_width x
\* datastream_height, write returns the capacity error (and has stored
\* nothing); whenever write reports success it has stored every element of
\* the sequence, never a prefix.
C1_CapacityError ==
    wres # None =>
        LET enc == encode(ds)
        IN  /\ (enc.kind = "ok" /\ TooMany(ds, Len(enc.data))) =>
                  /\ wres = CapacityError
                  /\ surf = InitialSurf
            /\ wres.kind = "ok" =>
                  /\ enc.kind = "ok"
                  /\ ~TooMany(ds, Len(enc.data))
                  /\ Cardinality(Modified) = Len(enc.data)

\* C1 witness: a record whose fixed part fills the datastream exactly and
\* that has one row more was refused.
C1_Witness ==
    /\ wres = CapacityError
    /\ Len(ds.vdata) = 1
    /\ ds.datastream_width * ds.datastream_height = 36

\* Whether some value encode quantizes is 2^18 or more.
Oversize(self) ==
    \/ \E i \in 1 .. Len(HeadFields) : self[HeadFields[i]] >= ValueLimit
    \/ \E i \in 1 .. Len(TailFields) : self[TailFields[i]] >= ValueLimit
    \/ \E i \in 1 .. 3 : self.col_divs[i] >= ValueLimit
    \/ Len(self.vdata) >= ValueLimit
    \/ \E i \in 1 .. Len(self.vdata) :
          \/ self.vdata[i].prev_day_header >= ValueLimit
          \/ /\ self.vdata[i].col_info.kind = "DayHeader"
             /\ OrFlag(self.vdata[i].col_info.offset) >= ValueLimit

\* C2: whenever a value encode quantizes is 2^18 or more (a scalar field, a
\* column divider, the table length, a row's prev_day_header, a day-header
\* row's word), encode returns an error value and no output sequence.
C2_OversizeReturnsError ==
    (encoded # None /\ Oversize(ds)) => encoded.kind = "err"

\* Whether a row is a colour row with an index of 8 or more.
BadColors(row) ==
    /\ row.col_info.kind = "Colors"
    /\ \E j \in 1 .. 4 : row.col_info.colors[j] >= 8

RowWordOf(info) ==
    IF info.kind = "Colors"
    THEN info.colors[1] * 512 + info.colors[2] * 64
         + info.colors[3] * 8 + info.colors[4]
    ELSE IF (info.offset \div 131072) % 2 = 1 THEN info.offset
         ELSE info.offset + 131072

\* The order of the scalar fields before and after the palette, as the
\* specification states it.
StatedHead(d) ==
    <<d.datastream_width, d.datastream_height, d.viewport_w, d.viewport_h,
      d.header_h, d.footer_h, d.border_l, d.border_r, d.day_header_height,
      d.col_divs[1], d.col_divs[2], d.col_divs[3]>>

StatedTail(d) ==
    <<d.section_pad, d.scroll_height, d.scroll_tex_y, d.bg_sample_y,
      d.bg_sample_h, d.header_tex_y, d.footer_tex_y, d.day_header_tex_x,
      d.day_header_tex_alpha_x, d.day_header_tex_y, d.day_header_side_width,
      d.day_header_true_width, d.header_blend_start, d.header_blend_end,
      d.scroll_split_point, Len(d.vdata)>>

\* The names of the fields StatedHead and StatedTail list, with the three
\* fields that are not scalars.
StatedFields ==
    {"datastream_width", "datastream_height", "viewport_w", "viewport_h",
     "header_h", "footer_h", "border_l", "border_r", "day_header_height",
     "col_divs", "palette", "section_pad", "scroll_height", "scroll_tex_y",
     "bg_sample_y", "bg_sample_h", "header_tex_y", "footer_tex_y",
     "day_header_tex_x", "day_header_tex_alpha_x", "day_header_tex_y",
     "day_header_side_width", "day_header_true_width", "header_blend_start",
     "header_blend_end", "scroll_split_point", "vdata"}

\* C6: when encode succeeds on a record with n rows its output has 36 + 2n
\* elements: the 12 leading scalars quantized, the 8 palette entries
\* verbatim, the 15 further scalars and n (at index 35) quantized, the n
\* prev_day_header values and the n row words quantized, in that order; the
\* fields listed are all the fields of the record.
C6_EncodeOrder ==
    encoded.kind = "ok" =>
        LET n == Len(ds.vdata)
            h == StatedHead(ds)
            t == StatedTail(ds)
            out == encoded.data
        IN  /\ Len(out) = 36 + 2 * n
            /\ \A i \in 1 .. 12 : out[i] = PixelOf(h[i])
            /\ \A i \in 1 .. 8 : out[12 + i] = ds.palette[i]
            /\ \A i \in 1 .. 16 : out[20 + i] = PixelOf(t[i])
            /\ out[35 + 1] = PixelOf(n)
            /\ \A i \in 1 .. n :
                  /\ out[36 + i] = PixelOf(ds.vdata[i].prev_day_header)
                  /\ out[36 + n + i] = PixelOf(RowWordOf(ds.vdata[i].col_info))
            /\ DOMAIN ds = StatedFields

\* C6 witness: encode succeeded on a record with a day-header row followed by
\* a colour row.
C6_Witness ==
    /\ encoded.kind = "ok"
    /\ Len(ds.vdata) = 2
    /\ ds.vdata[1].col_info.kind = "DayHeader"
    /\ ds.vdata[2].col_info.kind = "Colors"

\* C7: when write succeeds, element i (0-based) of the encoded sequence is at
\* image row i div datastream_width, image column image_width - (i mod
\* datastream_width) - 1; two elements never share a pixel and every other
\* pixel is what it was.
C7_WritePlacement ==
    wres.kind = "ok" =>
        LET out == encode(ds).data
            w == ds.datastream_width
            At(i) == <<i \div w, surf.w - (i % w) - 1>>
        IN  /\ \A i \in 0 .. Len(out) - 1 :
                  /\ At(i) \in DOMAIN surf.px
                  /\ surf.px[At(i)] = <<out[i + 1].b, out[i + 1].g,
                                        out[i + 1].r, out[i + 1].a>>
            /\ \A i, j \in 0 .. Len(out) - 1 : i # j => At(i) # At(j)
            /\ \A p \in DOMAIN surf.px :
                  (\A i \in 0 .. Len(out) - 1 : At(i) # p) =>
                      surf.px[p] = InitialSurf.px[p]

\* C7 witness: write succeeded with a datastream narrower than the image and
\* a last chunk that is not full.
C7_Witness ==
    /\ wres.kind = "ok"
    /\ ds.datastream_width < surf.w
    /\ Len(ds.vdata) = 1
    /\ Len(encode(ds).data) % ds.datastream_width # 0

RECURSIVE SumHeights(_, _)
\* The sum of the heights of the first k of the bounds bs.
SumHeights(bs, k) == IF k = 0 THEN 0 ELSE SumHeights(bs, k - 1) + bs[k][2]

\* The largest of the i-th components of the bounds bs, 0 for none.
Largest(bs, i) ==
    IF bs = <<>> THEN 0
    ELSE CHOOSE m \in {bs[k][i] : k \in 1 .. Len(bs)} :
            \A k \in 1 .. Len(bs) : bs[k][i] <= m

\* C9: after children of bounds (w1,h1) .. (wk,hk) were pushed in order, the
\* RenderColumn's bounds are (max wi, sum hi), each push returned the sum of
\* the heights of the children before it and placed the child at that
\* y-offset, and the RenderGroup's bounds are (max wi, max hi).
C9_StackBounds ==
    /\ bounds(col) = <<Largest(pushed, 1), SumHeights(pushed, Len(pushed))>>
    /\ bounds(grp) = <<Largest(pushed, 1), Largest(pushed, 2)>>
    /\ Len(rets) = Len(pushed)
    /\ Len(col.items) = Len(pushed)
    /\ Len(grp.items) = Len(pushed)
    /\ \A k \in 1 .. Len(pushed) :
          /\ rets[k] = SumHeights(pushed, k - 1)
          /\ col.items[k] =
                Translate(Leaf(pushed[k][1], pushed[k][2]), 0, rets[k])
          /\ grp.items[k] = Leaf(pushed[k][1], pushed[k][2])

\* C9 witness: three children were pushed, the widest first and the tallest
\* second.
C9_Witness ==
    /\ pushed = <<<<5, 1>>, <<2, 3>>, <<0, 1>>>>
    /\ bounds(col) = <<5, 5>>
    /\ bounds(grp) = <<5, 3>>
    /\ rets = <<0, 1, 4>>

\* The pixel of the source a padded renderable is stated to show at (px, py):
\* along the padded axis the first pixel up to a, the source itself from a on,
\* the last pixel from a + size on.
Stretched(p, a, size) ==
    IF p < a THEN 0 ELSE IF p < a + size THEN p - a ELSE size - 1

\* C10: pad_vertical of a W x H source by (a, b) has bounds W x (H + a + b),
\* shows source row 0 in its first a rows, the source unscaled from row a and
\* source row H - 1 in the b rows from a + H; it is built of the 1-pixel
\* slices at 0 and H - 1 scaled by a and b and the source placed at a.
\* pad_sides is the same along x, with bounds (W + a + b) x H.
C10_PadBounds ==
    padcall # None =>
        LET w == padcall.w
            h == padcall.h
            a == padcall.a
            b == padcall.b
            src == Leaf(w, h)
        IN  IF padcall.kind = "pad_vertical"
            THEN /\ bounds(padded) = <<w, h + a + b>>
                 /\ \A px \in 0 .. w - 1, py \in 0 .. h + a + b - 1 :
                       Sample(padded, px, py) =
                           [hit |-> TRUE, x |-> px, y |-> Stretched(py, a, h)]
                 /\ \A px \in 0 .. w : ~Sample(padded, px, h + a + b).hit
                 /\ \A py \in 0 .. h + a + b : ~Sample(padded, w, py).hit
                 /\ padded.items =
                       (IF a > 0
                        THEN <<Translate(Scale(Clip(src, 0, 0, w, 1), 1, a), 0, 0)>>
                        ELSE <<>>)
                       \o <<Translate(Scale(Clip(src, 0, 0, w, h), 1, 1), 0, a)>>
                       \o (IF b > 0
                           THEN <<Translate(Scale(Clip(src, 0, h - 1, w, 1), 1, b),
                                            0, a + h)>>
                           ELSE <<>>)
            ELSE /\ bounds(padded) = <<w + a + b, h>>
                 /\ \A px \in 0 .. w + a + b - 1, py \in 0 .. h - 1 :
                       Sample(padded, px, py) =
                           [hit |-> TRUE, x |-> Stretched(px, a, w), y |-> py]
                 /\ \A py \in 0 .. h : ~Sample(padded, w + a + b, py).hit
                 /\ \A px \in 0 .. w + a + b : ~Sample(padded, px, h).hit
                 /\ padded.items =
                       (IF a > 0
                        THEN <<Translate(Scale(Clip(src, 0, 0, 1, h), a, 1), 0, 0)>>
                        ELSE <<>>)
                       \o <<Translate(Scale(Clip(src, 0, 0, w, h), 1, 1), a, 0)>>
                       \o (IF b > 0
                           THEN <<Translate(Scale(Clip(src, w - 1, 0, 1, h), b, 1),
                                            a + w, 0)>>
                           ELSE <<>>)

\* C10 witness: a 2 x 3 source was padded vertically by 2 above and 1 below.
C10_Witness ==
    /\ padcall = [kind |-> "pad_vertical", w |-> 2, h |-> 3, a |-> 2, b |-> 1]
    /\ bounds(padded) = <<2, 6>>
    /\ Sample(padded, 1, 5) = [hit |-> TRUE, x |-> 1, y |-> 2]

RECURSIVE TotalHeight(_, _)
\* The sum of the heights of the first k row-groups.
TotalHeight(entries, k) ==
    IF k = 0 THEN 0
    ELSE TotalHeight(entries, k - 1) + bounds(entries[k].renderable)[2]

\* The rows an unlimited budget gives for the days laid out.
UnlimitedRows ==
    LET entries == LayoutDays(days, 1)
    IN  generate_variable_layout(
            days, <<>>, Ceil(TotalHeight(entries, Len(entries))) + 1).vdata

\* C8: generate_variable_layout on an empty table with budget L leaves at
\* most L rows; when the layout needs more than L scanlines the table holds
\* exactly the first L rows an unlimited budget gives (and all of them
\* otherwise), and the layout returned still has every row-group and the
\* bounds of all of them.
C8_RowBudget ==
    layout # None =>
        LET entries == LayoutDays(days, 1)
            total == TotalHeight(entries, Len(entries))
            full == UnlimitedRows
        IN  /\ Len(vdata) <= height_limit
            /\ Len(full) = Ceil(total)
            /\ Len(full) > height_limit => vdata = SubSeq(full, 1, height_limit)
            /\ Len(full) <= height_limit => vdata = full
            /\ layout.kind = "ok"
            /\ layout.value.items = entries
            /\ bounds(layout.value) =
                  <<Largest([k \in 1 .. Len(entries) |-> bounds(entries[k].renderable)], 1),
                    total>>

\* C8 witness: two days were laid out with a budget of 222 rows, which ends
\* inside the second day's header; the layout returned is taller.
C8_Witness ==
    /\ layout # None
    /\ Len(days) = 2
    /\ height_limit = 222
    /\ Len(vdata) = 222
    /\ vdata[222].col_info.kind = "DayHeader"
    /\ Ceil(bounds(layout.value)[2]) > 300

\* C11: when render / render_to of any tree of combinators returns success,
\* the context's transform, clip, compositing operator and save/restore
\* nesting depth are what they were before the call.
C11_PaintRestoresOnSuccess ==
    (rres # None /\ rres.kind = "ok") =>
        /\ cx.gs.ctm = rres.before.gs.ctm
        /\ cx.gs.clip = rres.before.gs.clip
        /\ cx.gs.operator = rres.before.gs.operator
        /\ Len(cx.stack) = Len(rres.before.stack)
        /\ cx.stack = rres.before.stack

RECURSIVE Mentions(_, _)
\* Whether a combinator or leaf of the given kind is in the renderable.
Mentions(t, kind) ==
    \/ t.kind = kind
    \/ /\ t.kind \in {"Group", "Column"}
       /\ \E i \in 1 .. Len(t.items) : Mentions(t.items[i], kind)
    \/ /\ t.kind = "Entries"
       /\ \E i \in 1 .. Len(t.items) : Mentions(t.items[i].renderable, kind)
    \/ /\ t.kind \in {"Translate", "Clip", "Scale", "SwapXY", "WithOperator",
                      "TestBorder"}
       /\ Mentions(t.inner, kind)

\* C11 witness: a text box, which clips and scales, was painted with success
\* on the context in use below a Clip, a SwapXY and a WithOperator.
C11_Witness ==
    /\ rres # None /\ rres.kind = "ok"
    /\ rres.before.stack # <<>>
    /\ Mentions(tree, "TextBox")
    /\ Mentions(tree, "Clip") /\ Mentions(tree, "SwapXY")
    /\ Mentions(tree, "WithOperator")

\* C12: when a descendant's paint fails and render / render_to returns the
\* error, the context's transform, clip and save/restore nesting depth are
\* what they were before the call, also below a Scale or TestBorder.
C12_PaintRestoresOnFailure ==
    (rres # None /\ rres.kind = "err") =>
        /\ cx.gs.ctm = rres.before.gs.ctm
        /\ cx.gs.clip = rres.before.gs.clip
        /\ Len(cx.stack) = Len(rres.before.stack)

\* Whether an f64 is NaN or infinite.
NonFinite(a) == a.kind # "fin"

\* C13: Scale::bounds for a child of bounds (w, h) and factors (sx, sy)
\* returns (max(0, w*sx), max(0, h*sy)), and fails instead of returning a
\* value whenever w*sx or h*sy is NaN or infinite.
C13_ScaleBoundsRejectsNonFinite ==
    fcall # None =>
        LET pw == F64Mul(fcall.inner[1], fcall.scale[1])
            ph == F64Mul(fcall.inner[2], fcall.scale[2])
        IN  IF NonFinite(pw) \/ NonFinite(ph)
            THEN fres.kind = "panic"
            ELSE /\ fres = [kind |-> "ok",
                            v |-> <<Fin(Max(0, pw.v)), Fin(Max(0, ph.v))>>]
                 /\ bounds(Scale(Leaf(fcall.inner[1].v, fcall.inner[2].v),
                                 fcall.scale[1].v, fcall.scale[2].v))
                       = <<fres.v[1].v, fres.v[2].v>>

\* The indices of the row-groups flagged as day headers, in order.
HeaderIndices(items) == {k \in 1 .. Len(items) : items[k].is_day_header}

\* The row-groups from the i-th flagged header up to the next one.
DaySegment(items, i) ==
    LET hs == HeaderIndices(items)
        first == CHOOSE k \in hs : Cardinality({j \in hs : j < k}) = i - 1
        later == {k \in hs : k > first}
        last == IF later = {} THEN Len(items)
                ELSE (CHOOSE k \in later : \A j \in later : k <= j) - 1
    IN  SubSeq(items, first, last)

IsMargin(e) == e.renderable = Pad(0, Px(header_template_margin)) /\ ~e.is_day_header

IsFiller(e) ==
    /\ e.renderable.kind = "Translate"
    /\ e.renderable.inner = TextBox(FillerMeasure)
    /\ ~e.is_day_header

IsSeparator(e) ==
    /\ e.renderable.kind = "Translate"
    /\ e.renderable.inner.kind = "Separator"
    /\ ~e.is_day_header

\* C14: for a day without events layout_day appends a header row-group, the
\* only one flagged is_day_header, a margin row-group and then the filler
\* row-group, those two alone before the filler, and no separator; for a day
\* with events it appends no filler.
C14_EmptyDayFiller ==
    layout # None =>
        LET items == layout.value.items
        IN  /\ Cardinality(HeaderIndices(items)) = Len(days)
            /\ \A i \in 1 .. Len(days) :
                  LET seg == DaySegment(items, i)
                  IN  IF days[i].events = <<>>
                      THEN /\ Len(seg) >= 3
                           /\ seg[1].is_day_header
                           /\ IsMargin(seg[2])
                           /\ IsFiller(seg[3])
                           /\ \A k \in 1 .. Len(seg) :
                                 /\ ~IsSeparator(seg[k])
                                 /\ IsFiller(seg[k]) => k = 3
                      ELSE /\ seg[1].is_day_header
                           /\ \A k \in 1 .. Len(seg) : ~IsFiller(seg[k])

\* C14 witness: the sample data, one day without events, was laid out.
C14_Witness ==
    /\ layout # None
    /\ days = sample_data
    /\ Len(layout.value.items) = 4
    /\ IsFiller(layout.value.items[3])

\* The number of hour changes between consecutive events among the first j.
HourChanges(events, j) ==
    Cardinality({i \in 2 .. j : events[i - 1].start_hour # events[i].start_hour})

\* C15: in a day of n >= 1 events with k hour changes, between the margin
\* after the header and the closing margin there are exactly the n event
\* row-groups in event order and k separators, one right before each event
\* whose start hour differs from that of the event before it.
C15_SeparatorsBetweenHours ==
    layout # None =>
        \A i \in 1 .. Len(days) :
            LET events == days[i].events
                n == Len(events)
                seg == DaySegment(layout.value.items, i)
                body == SubSeq(seg, 3, Len(seg) - 1)
                at(j) == j + HourChanges(events, j)
            IN  n >= 1 =>
                  /\ Len(body) = n + HourChanges(events, n)
                  /\ \A j \in 1 .. n : body[at(j)] = layout_single_event(events[j])
                  /\ \A p \in 1 .. Len(body) :
                        IsSeparator(body[p]) <=>
                            \E j \in 2 .. n :
                                /\ p = at(j) - 1
                                /\ events[j - 1].start_hour # events[j].start_hour
                  /\ Cardinality({p \in 1 .. Len(body) : IsSeparator(body[p])})
                        = HourChanges(events, n)
                  /\ ~IsSeparator(body[1]) /\ ~IsSeparator(body[Len(body)])

\* C15 witness: a day of two events of different hours was laid out, with a
\* separator between their row-groups.
C15_Witness ==
    /\ layout # None
    /\ Len(days) = 1
    /\ Len(days[1].events) = 2
    /\ days[1].events[1].start_hour # days[1].events[2].start_hour
    /\ IsSeparator(layout.value.items[4])
    /\ Len(layout.value.items) = 6

\* The end of the call to format_end made and the days from the start date
\* to the end date.
EndOf == fcall.event.end_time.v
DaysApart == EndOf.date - fcall.event.start_time.date

\* C16: format_end splits four ways: an end on the start's day gives
\* "~HH:MM"; on the next day up to 03:59 "~(HH+24):MM" (02:00 gives
\* "~26:00"); on the next day later "~<U+7FCC>HH:MM" (09:00 gives
\* "~<U+7FCC>09:00"); any other date difference "~MM/DD (sigil of the end
\* date) HH:MM"; an event without an end has no label.
C16_FormatEndCases ==
    fcall # None =>
        IF fcall.event.end_time = None THEN fres = None
        ELSE /\ fres.kind = "some"
             /\ DaysApart = 0 => fres.v = "~" \o FormatHM(EndOf)
             /\ (DaysApart = 1 /\ EndOf.hour <= 3) =>
                   fres.v = "~" \o TwoDigits(EndOf.hour + 24) \o ":"
                                \o TwoDigits(EndOf.minute)
             /\ (DaysApart = 1 /\ EndOf.hour > 3) =>
                   fres.v = "~<U+7FCC>" \o FormatHM(EndOf)
             /\ DaysApart \notin {0, 1} =>
                   fres.v = "~" \o TwoDigits(MonthOf(EndOf.date)) \o "/"
                                \o TwoDigits(DayOf(EndOf.date)) \o " ("
                                \o weekday_sigil(weekday(EndOf.date)) \o ") "
                                \o FormatHM(EndOf)
             /\ (DaysApart = 1 /\ EndOf.hour = 2 /\ EndOf.minute = 0) =>
                   fres.v = "~26:00"
             /\ (DaysApart = 1 /\ EndOf.hour = 3 /\ EndOf.minute = 59) =>
                   fres.v = "~27:59"
             /\ (DaysApart = 1 /\ EndOf.hour = 9 /\ EndOf.minute = 0) =>
                   fres.v = "~<U+7FCC>09:00"
             /\ (DaysApart = 0 /\ EndOf.hour = 23 /\ EndOf.minute = 5) =>
                   fres.v = "~23:05"
             /\ (EndOf.date = 2 /\ DaysApart = 2 /\ EndOf.hour = 9 /\ EndOf.minute = 5) =>
                   fres.v = "~06/01 (<U+6708>) 09:05"
             /\ (EndOf.date = 0 /\ DaysApart = 0 - 1 /\ EndOf.hour = 0 /\ EndOf.minute = 0) =>
                   fres.v = "~05/30 (<U+571F>) 00:00"

\* C16 witness: the label of an end at 03:59 of the next day was made.
C16_Witness ==
    /\ fcall # None
    /\ fcall.event.end_time # None
    /\ DaysApart = 1 /\ EndOf.hour = 3 /\ EndOf.minute = 59
    /\ fres = Some("~27:59")

\* C17 as stated: for an end on the day after the start with an end hour
\* above 3 the label is "~", the weekday sigil of the end date, then HH:MM.
C17_NextDaySigil ==
    (fcall # None /\ fcall.event.end_time # None /\ DaysApart = 1 /\ EndOf.hour > 3) =>
        fres = Some("~" \o weekday_sigil(weekday(EndOf.date)) \o FormatHM(EndOf))

\* C17 amended: for an end on the day after the start with an end hour above
\* 3 the label is "~<U+7FCC>" followed by HH:MM, the same whatever the
\* weekday of the end date.
C17_NextDayMarker ==
    (fcall # None /\ fcall.event.end_time # None /\ DaysApart = 1 /\ EndOf.hour > 3) =>
        fres = Some("~<U+7FCC>" \o FormatHM(EndOf))

\* C17 witness: the label of an end at 09:00 of the next day, a Sunday, was
\* made.
C17_Witness ==
    /\ fcall # None
    /\ fcall.event.end_time # None
    /\ DaysApart = 1 /\ EndOf.hour = 9 /\ EndOf.minute = 0
    /\ weekday_sigil(weekday(EndOf.date)) = "<U+65E5>"
    /\ fres = Some("~<U+7FCC>09:00")

\* The feed events of the call that parse and are retained.
RetainedEntries ==
    {fcall.feed[i] : i \in {k \in 1 .. Len(fcall.feed) :
                               /\ fcall.feed[k].kind = "entry"
                               /\ Retained(fcall.feed[k], fcall.now)}}

\* The CalendarEvent of a feed event.
EventOf(e) ==
    [start_time |-> e.dtstart, end_time |-> e.dtend, body |-> unescape(e.summary)]

\* The number of times an event is in the days fetched.
TimesFetched(ev) ==
    Cardinality({<<d, k>> \in (1 .. Len(fres.v)) \X (1 .. Len(fcall.feed)) :
                    /\ k <= Len(fres.v[d].events)
                    /\ fres.v[d].events[k] = ev})

\* C18: consecutive feed entries of the same day with identical (start, end,
\* body) give a single CalendarEvent, whatever the texts: an event is fetched
\* no more often than there are different retained entries it comes from.
C18_DuplicatesCollapse ==
    (fcall # None /\ fres # None /\ fres.kind = "ok") =>
        \A e \in RetainedEntries :
            TimesFetched(EventOf(e))
                <= Cardinality({o \in RetainedEntries : EventOf(o) = EventOf(e)})

\* The least multiple of three that is not below n.
RoundUp3(n) == ((n + 2) \div 3) * 3

\* C19: in compute_layout the height of the alpha surface is the ceiling of
\* the layout's height rounded up to a multiple of three, capped at three
\* times the row budget; it is always a multiple of three.
C19_AlphaHeightMultipleOfThree ==
    (fcall # None /\ fcall.kind = "compute_layout") =>
        LET max_height == Floor(fcall.max_height)
            gen == generate_variable_layout(fcall.days, <<>>, max_height * 3)
            natural == Ceil(height(gen.result.value))
        IN  /\ fres.alpha_surf.height
                  = Min(RoundUp3(natural), 3 * max_height)
            /\ fres.alpha_surf.height % 3 = 0

\* The byte of the pixel x of the row y of an alpha surface.
AlphaAt(a, x, y) == a.data[y * a.stride + x]

\* C20: squash_surface of an alpha surface of W by H gives a surface of W by
\* H div 3 whose pixel (x, y) has as blue the input pixel (x, y), as green
\* (x, y + H div 3), as red (x, y + 2 (H div 3)), and 0xFF as alpha; the
\* bytes of a pixel are blue, green, red, alpha.
C20_SquashThirds ==
    (fcall # None /\ fcall.kind = "squash_surface") =>
        LET inp == fcall.surf
            third == inp.height \div 3
        IN  /\ fres.width = inp.width
            /\ fres.height = third
            /\ DOMAIN fres.data = 0 .. 4 * inp.width * third - 1
            /\ \A x \in 0 .. inp.width - 1, y \in 0 .. third - 1 :
                  LET px == [c \in 0 .. 3 |-> fres.data[y * fres.stride + 4 * x + c]]
                  IN  /\ px[0] = AlphaAt(inp, x, y)
                      /\ px[1] = AlphaAt(inp, x, y + third)
                      /\ px[2] = AlphaAt(inp, x, y + 2 * third)
                      /\ px[3] = 255
                      /\ px[0] = 16 * y + x + 1
                      /\ px[1] = 16 * (y + third) + x + 1
                      /\ px[2] = 16 * (y + 2 * third) + x + 1

\* C20 witness: a surface of 5 by 7, whose last row belongs to no third, was
\* squashed to one of 5 by 2.
C20_Witness ==
    /\ fcall # None /\ fcall.kind = "squash_surface"
    /\ fcall.surf.width = 5 /\ fcall.surf.height = 7
    /\ fres.width = 5 /\ fres.height = 2
    /\ fres.data[fres.stride + 4 * 4 + 2] = 16 * 5 + 4 + 1

\* layout_template on the inputs of the call recorded in fcall
TemplateOf ==
    layout_template(setup_environment(fcall.template, fcall.header),
                    config_datastream_info, fcall.build)

\* C21: every conversion of a layout quantity to an integer yields the exact
\* value or aborts the run: after a compute_full_layout that succeeded, each
\* geometry field is the quantity it was converted from (rounded up where
\* the code rounds up), and the datastream's size is the viewport's minus the
\* first segment's.
C21_ConversionsExactOrAbort ==
    (fcall # None /\ fcall.kind = "compute_full_layout" /\ fres.kind = "ok") =>
        LET lt == TemplateOf
            d == fres.data
            init_seg == lt.column.items[1]
        IN  /\ Px(d.day_header_tex_x) = lt.coords.day_header_tex.x
            /\ Px(d.day_header_true_width) = lt.coords.day_header_true_size[1]
            /\ Px(d.day_header_height) = lt.coords.day_header_true_size[2]
            /\ Px(d.header_tex_y) = lt.coords.header.y
            /\ Px(d.footer_tex_y) = lt.coords.footer.y
            /\ Px(d.bg_sample_y)
                 = height(lt.column) - Px(d.bg_sample_h) - Px(SECTION_PAD)
            /\ d.datastream_width = VIEWPORT_WIDTH - Ceil(width(init_seg))
            /\ d.datastream_height = VIEWPORT_HEIGHT - Ceil(height(init_seg))
            /\ d.scroll_tex_y = Ceil(height(lt.column) + Px(SECTION_PAD))
            /\ d.scroll_height
                 = Ceil(height(fres.layout.items[2].inner) - Px(SECTION_PAD))

\* The indices of the entries of the feed that fail to parse.
BadEntries == {i \in 1 .. Len(fcall.feed) : fcall.feed[i].kind = "bad"}

\* C22: fetch_calendar skips the entries that fail to parse while at most 10
\* have failed, entries after a failed one being fetched all the same, and
\* gives up with an error and no days at the 11th failure, however many
\* entries parsed.
C22_ParseErrorThreshold ==
    (fcall # None /\ fcall.kind = "fetch_calendar" /\ fres # None) =>
        IF Cardinality(BadEntries) <= 10
        THEN /\ fres.kind = "ok"
             /\ fres.v = IF \E i \in 1 .. Len(fcall.feed) : i \notin BadEntries
                         THEN <<[date |-> 1, events |-> <<EventOf(GoodEntry)>>]>>
                         ELSE <<>>
        ELSE /\ fres.kind = "err"
             /\ DOMAIN fres = {"kind", "what", "at", "parse_errors"}
             /\ fres.parse_errors = 11
             /\ fres.at \in BadEntries
             /\ Cardinality({i \in BadEntries : i <= fres.at}) = 11

\* C22 witness: a feed whose first entry parses and whose other eleven do
\* not was given up at the last one.
C22_Witness ==
    /\ fcall # None /\ fcall.kind = "fetch_calendar" /\ fres # None
    /\ Len(fcall.feed) = 12
    /\ BadEntries = 2 .. 12
    /\ fres.kind = "err" /\ fres.at = 12

\* The 6 bits a decoder reads from a channel byte, and the 18-bit word it
\* reads from a pixel.
BitsOfChannel(q) == IF q <= 96 THEN q \div 4 ELSE (q - 2) \div 4
WordOfPixel(c) ==
    BitsOfChannel(c.r) * 4096 + BitsOfChannel(c.g) * 64 + BitsOfChannel(c.b)

\* Bit 17 of a word.
Bit17(w) == (w \div 131072) % 2

\* C23: in the row-info section a Colors row (c0,c1,c2,c3) is the word
\* c0*512 + c1*64 + c2*8 + c3, below 2^12, and a DayHeader row with offset
\* o < 2^17 is the word o + 2^17; bit 17 of the word is set exactly for the
\* day-header rows, and the indices or the offset are read back from the
\* word.
C23_RowWords ==
    encoded.kind = "ok" =>
        LET n == Len(ds.vdata)
        IN  \A i \in 1 .. n :
              LET info == ds.vdata[i].col_info
                  w == WordOfPixel(encoded.data[36 + n + i])
              IN  /\ (Bit17(w) = 1) <=> (info.kind = "DayHeader")
                  /\ info.kind = "Colors" =>
                        /\ w = info.colors[1] * 512 + info.colors[2] * 64
                               + info.colors[3] * 8 + info.colors[4]
                        /\ w < 4096
                        /\ <<(w \div 512) % 8, (w \div 64) % 8, (w \div 8) % 8,
                             w % 8>> = info.colors
                  /\ (info.kind = "DayHeader" /\ info.offset < 131072) =>
                        /\ w = info.offset + 131072
                        /\ w % 131072 = info.offset

\* C23 witness: encode succeeded on a colour row with four different indices
\* followed by a day-header row with offset 5.
C23_Witness ==
    /\ encoded.kind = "ok"
    /\ Len(ds.vdata) = 2
    /\ ds.vdata[1].col_info = Colors(<<7, 0, 5, 2>>)
    /\ ds.vdata[2].col_info = DayHeader(5)
    /\ WordOfPixel(encoded.data[39]) = 3626
    /\ WordOfPixel(encoded.data[40]) = 131077

\* The ends of the row-groups: ends[j] is the sum of the heights of the first
\* j of them.
EndsOf(groups) == [j \in 0 .. Len(groups) |-> TotalHeight(groups, j)]

\* The row-groups whose span of scanlines, from the end of the one before to
\* its own end, holds scanline i.
GroupsAt(ends, i) ==
    {j \in DOMAIN ends \ {0} : ends[j - 1] <= Px(i) /\ Px(i) < ends[j]}

\* The last day-header row-group at or before row-group j.
HeaderBefore(groups, j) ==
    CHOOSE k \in 1 .. j :
        /\ groups[k].is_day_header
        /\ \A m \in k + 1 .. j : ~groups[m].is_day_header

\* C24: after generate_variable_layout every row i of the table (counted
\* from 0) has the col_info of the row-group whose span holds scanline i,
\* Colors with its four slots or DayHeader; the rows follow the row-groups
\* without gaps; and prev_day_header is the first row of the last day-header
\* row-group at or before row i, which is at most i and is a DayHeader row.
C24_RowsFollowGroups ==
    layout # None =>
        LET groups == LayoutDays(days, 1)
            ends == EndsOf(groups)
            at == [i \in 0 .. Len(vdata) - 1 |-> GroupsAt(ends, i)]
        IN  \A i \in 0 .. Len(vdata) - 1 :
              /\ Cardinality(at[i]) = 1
              /\ \A j \in at[i] :
                    LET row == vdata[i + 1]
                        first == Ceil(ends[HeaderBefore(groups, j) - 1])
                    IN  /\ IF groups[j].is_day_header
                           THEN row.col_info.kind = "DayHeader"
                           ELSE row.col_info = Colors(groups[j].colors)
                        /\ i > 0 => \E k \in at[i - 1] : j \in {k, k + 1}
                        /\ row.prev_day_header = first
                        /\ row.prev_day_header <= i
                        /\ vdata[row.prev_day_header + 1].col_info.kind
                             = "DayHeader"

\* C24 witness: a day whose rows end at a half scanline is followed by a
\* second day, and the table has rows of the second day's event.
C24_Witness ==
    /\ layout # None
    /\ Len(days) = 2
    /\ LET groups == LayoutDays(days, 1)
       IN  \E j \in 1 .. Len(groups) :
              /\ groups[j].is_day_header
              /\ TotalHeight(groups, j - 1) % 1000 = 500
    /\ Len(vdata) > 0
    /\ vdata[Len(vdata)].col_info.kind = "Colors"
    /\ vdata[Len(vdata)].prev_day_header > 0

\* C25: the offset of every DayHeader row i is its distance from the first
\* row of its own header, i - prev_day_header(i), whatever the heights before
\* the header: the first row of a header has offset 0 and the offsets grow by
\* one a row.
C25_HeaderOffsets ==
    layout # None =>
        \A i \in 0 .. Len(vdata) - 1 :
            vdata[i + 1].col_info.kind = "DayHeader" =>
                vdata[i + 1].col_info.offset = i - vdata[i + 1].prev_day_header

\* The children of a container, in push order, without the offsets the
\* container keeps with them.
KidsOf(t) ==
    CASE t.kind = "Group" -> t.items
      [] t.kind = "Column" -> [i \in DOMAIN t.items |-> t.items[i].inner]
      [] t.kind = "Entries" -> [i \in DOMAIN t.items |-> t.items[i].renderable]

\* The renderables drawn by the call, in the order drawn.
DrawnByCall ==
    LET was == Len(rres.before.drawn)
    IN  [i \in 1..(Len(cx.drawn) - was) |-> cx.drawn[was + i].what]

\* The children of kids that fail to paint.
FailingKids(kids) == {i \in DOMAIN kids : kids[i].kind = "TextBoxNoLayout"}

\* C26: RenderGroup, RenderColumn and the row-group list paint their
\* children in push order; when a child's paint fails, painting stops at
\* that child, none of the later children is painted, and the error
\* returned to the caller is that first child's error.
C26_PaintInPushOrder ==
    (rres # None /\ tree.kind \in {"Group", "Column", "Entries"}) =>
        LET kids == KidsOf(tree)
            failing == FailingKids(kids)
            first == CHOOSE i \in failing : \A j \in failing : i <= j
        IN  IF failing = {}
            THEN /\ rres.kind = "ok"
                 /\ DrawnByCall = kids
            ELSE /\ rres.kind = "err"
                 /\ rres.error = kids[first]
                 /\ DrawnByCall = SubSeq(kids, 1, first - 1)

\* A container of three children whose second and third fail differently
\* has been painted: the first is drawn, and the error is the second's.
C26_Witness ==
    /\ rres # None
    /\ tree.kind \in {"Group", "Column", "Entries"}
    /\ Len(KidsOf(tree)) = 3
    /\ FailingKids(KidsOf(tree)) = {2, 3}
    /\ KidsOf(tree)[2] # KidsOf(tree)[3]
    /\ Len(DrawnByCall) = 1
    /\ rres.error = KidsOf(tree)[2]

\* C27: ByteColor::from_value is injective on 0 <= v < 2^18: the decoder
\* that reads 6 bits from each channel byte reads v back from the pixel of
\* every such v, so no two values have the same (R,G,B) and every encoded
\* scalar is recovered exactly.
C27_FromValueInjective ==
    (qarg < ValueLimit /\ qres # None) =>
        /\ qres.kind = "ok"
        /\ WordOfPixel(qres.color) = qarg
        /\ \A w \in {qarg - 1, qarg + 1, qarg - 64, qarg + 64,
                      qarg - 4096, qarg + 4096} :
              (w >= 0 /\ w < ValueLimit) => from_value(w).color # qres.color

\* C27 witness: a value whose groups lie on both sides of the correction's
\* threshold has been quantized, and its neighbour's pixel differs in one
\* channel by the correction's step.
C27_Witness ==
    /\ qarg = 24 * 4096 + 25 * 64 + 0
    /\ qres.kind = "ok"
    /\ qres.color = [r |-> 96, g |-> 102, b |-> 0, a |-> 255]
    /\ from_value(qarg + 64).color.g = 106

\* The fields config_datastream_info initialises with u32::MAX.
PlaceholderFields ==
    {"datastream_width", "datastream_height", "scroll_height", "scroll_tex_y",
     "bg_sample_y", "header_tex_y", "footer_tex_y", "day_header_tex_x",
     "day_header_tex_alpha_x", "day_header_tex_y", "day_header_side_width",
     "day_header_true_width"}

\* The record of config_datastream_info with another value in the place of
\* every placeholder.
OtherPlaceholders ==
    [f \in DOMAIN config_datastream_info |->
        IF f \in PlaceholderFields THEN 7777777 ELSE config_datastream_info[f]]

\* Whether one of the two subtractions from the viewport's size has wrapped
\* in the record d (the defect of C21, in the release build).
Wrapped(d) ==
    d.datastream_width > VIEWPORT_WIDTH \/ d.datastream_height > VIEWPORT_HEIGHT

C29_WriteErrorLeavesImage ==
    (wres # None /\ wres.kind = "err") =>
        /\ \/ wres = encode(ds)
           \/ encode(ds).kind = "ok" /\ wres = CapacityError
        /\ Modified = {}
        /\ surf = InitialSurf

\* C29 witness: write has returned the error of encode for a record whose
\* datastream has room, and the image is as it was.
C29_Witness ==
    /\ wres # None /\ wres.kind = "err"
    /\ wres # CapacityError
    /\ ds.datastream_width * ds.datastream_height >= 36 + 2 * Len(ds.vdata)
    /\ surf = InitialSurf

\* The PAL_* constants.
PalConstants ==
    {PAL_DATE, PAL_TEXT_ENDED, PAL_TIME_ENDED, PAL_TEXT, PAL_TIME, PAL_TIME_DASH}

\* The 4-slot arrays of the colour rows of the table.
ColorsInTable ==
    {vdata[i].col_info.colors :
        i \in {k \in 1 .. Len(vdata) : vdata[k].col_info.kind = "Colors"}}

\* C30: every palette index the composer places in a row-group's 4-slot
\* array is one of the PAL_* constants and below 8, so every Colors row of
\* the VerticalData table has all its indices below 8 and the serializer
\* accepts it: its palette-index failure does not happen on the composer's
\* output.
C30_PaletteIndicesInRange ==
    layout # None =>
        LET groups == LayoutDays(days, 1)
        IN  /\ \A j \in 1 .. Len(groups) : \A k \in 1 .. 4 :
                  /\ groups[j].colors[k] \in PalConstants
                  /\ groups[j].colors[k] < Len(PALETTE)
                  /\ groups[j].colors[k] < 8
            /\ \A i \in 1 .. Len(vdata) :
                  /\ ~BadColors(vdata[i])
                  /\ EncodeRow(vdata[i].col_info).kind = "ok"
                  /\ vdata[i].col_info.kind = "Colors" =>
                        \E j \in 1 .. Len(groups) :
                            vdata[i].col_info.colors = groups[j].colors

\* C30 witness: a table has been laid out that has rows of an active event,
\* of an ended event, of a separator and of a margin.
C30_Witness ==
    /\ layout # None
    /\ <<PAL_TIME, PAL_TEXT, PAL_TEXT, PAL_TEXT>> \in ColorsInTable
    /\ <<PAL_TIME_ENDED, PAL_TEXT_ENDED, PAL_TEXT_ENDED, PAL_TEXT_ENDED>>
           \in ColorsInTable
    /\ <<PAL_TIME_DASH, PAL_TIME_DASH, PAL_TIME_DASH, PAL_TIME_DASH>>
           \in ColorsInTable
    /\ <<PAL_TEXT, PAL_TEXT, PAL_TEXT, PAL_TEXT>> \in ColorsInTable
    /\ \E i \in 1 .. Len(vdata) : vdata[i].col_info.kind = "DayHeader"

====
